---- MODULE Spec2Model ----
(***************************************************************************)
(* Model of the WebGL2 virtual-background renderer (WebGLRenderer in       *)
(* src/src/config/defaults.ts): the two fragment shaders, the ping-pong    *)
(* mask state, the background cache, render() and close().                 *)
(*                                                                         *)
(* Numbers.  Shader floats are fixed-point integers with ONE = 1.0 and     *)
(* floor division after every product.  Texels of RGBA/UNSIGNED_BYTE       *)
(* textures are bytes 0..255 of the red channel; FromUnorm8 / ToUnorm8 are *)
(* the conversions the GPU applies when such a texel is sampled / written. *)
(*                                                                         *)
(* Space.  Images and textures are one pixel wide: a texture is a record   *)
(* [h, px] with px[1] the row at t = 0.  Horizontal taps therefore land on *)
(* the same column (CLAMP_TO_EDGE); vertical coordinates, the flipped      *)
(* texture coordinates of the quad and the row order of uploads are        *)
(* modelled as the code sets them up.                                      *)
(***************************************************************************)
EXTENDS Integers, Sequences, FiniteSets, TLC

VARIABLES
    running,                          \* WebGLRenderer.running
    currentStateIndex,                \* WebGLRenderer.currentStateIndex
    storedStateTextures,              \* sequence of texture handles
    backgroundRenderInfo,             \* NoInfo or a record
    activeBackgroundSourceIdentifier, \* NoId or a string
    canvas,                           \* [width, height, px] of the output canvas
    glTextures,                       \* live texture objects: handle -> [kind, h, px]
    nextTexture,                      \* next handle gl.createTexture() returns
    last,                             \* what the most recent call did
    hist,                             \* history of earlier calls
    su,                               \* one evaluation of the state-update shader
    tr,                               \* runs of the state-update recurrence
    vb,                               \* options and background loads of processVideoTrack
    bl,                               \* one evaluation of the blend shader
    fx,                               \* the useVideoEffect hook and its applyEffect calls
    wk,                               \* the worker's options and the messages posted to it
    fp,                               \* a FallbackProcessor and its readable stream
    rn,                               \* an RNNoiseProcessor and its buffers
    rec                               \* the useRecording hook and its recorders

vars == <<running, currentStateIndex, storedStateTextures, backgroundRenderInfo,
          activeBackgroundSourceIdentifier, canvas, glTextures, nextTexture,
          last, hist, su, tr, vb, bl, fx, wk, fp, rn, rec>>

rendererVars == <<running, currentStateIndex, storedStateTextures, backgroundRenderInfo,
                  activeBackgroundSourceIdentifier, canvas, glTextures, nextTexture,
                  last, hist>>

(***************************************************************************)
(* Fixed-point arithmetic and GLSL built-ins                               *)
(***************************************************************************)
ONE == 10000

NaN == 0 - 1

\* floor(a * b / ONE), split so that the product stays within 32 bits
Mul(a, b) == (a \div ONE) * b + ((a % ONE) * b) \div ONE

clamp(x, lo, hi) == IF x < lo THEN lo ELSE IF x > hi THEN hi ELSE x

Abs(x) == IF x < 0 THEN 0 - x ELSE x

\* GLSL smoothstep.  Its result is undefined when edge0 >= edge1: `undef' is
\* the value the build produces there (a number in [0, ONE], or NaN).
smoothstep(edge0, edge1, x, undef) ==
    IF edge0 >= edge1 THEN undef
    ELSE LET t == clamp(((x - edge0) * ONE) \div (edge1 - edge0), 0, ONE)
         IN  Mul(Mul(t, t), 3 * ONE - 2 * t)

\* GLSL mix(x, y, a) = x * (1 - a) + y * a
mix(x, y, a) == (x * (ONE - a) + y * a) \div ONE

\* Outcomes of an undefined smoothstep
UndefOutcomes == {0, ONE, NaN}

\* Bytes a NaN fragment colour may be stored as in an 8-bit colour buffer
NaNBytes == {0, 255}

(***************************************************************************)
(* Textures                                                                *)
(***************************************************************************)
\* normalized unsigned byte -> float, as sampling an UNSIGNED_BYTE texture does
FromUnorm8(b) == (b * ONE) \div 255

ToUnorm8NoClamp(x) == (x * 255 + ONE \div 2) \div ONE

\* float -> normalized unsigned byte, as a write to an 8-bit colour buffer does
ToUnorm8(x) == (clamp(x, 0, ONE) * 255 + ONE \div 2) \div ONE

\* the texture object bound when the name is null or deleted: samples as 0
NoTexture == [kind |-> "none", filter |-> "nearest", w |-> 1, h |-> 1, px |-> <<0>>]

texelFetch(tex, i) ==
    IF tex.h = 0 THEN 0 ELSE FromUnorm8(tex.px[clamp(i, 0, tex.h - 1) + 1])

\* texture2D on a TEXTURE_MIN/MAG_FILTER = LINEAR, CLAMP_TO_EDGE texture
texture2DLinear(tex, y) ==
    LET u  == clamp(y * tex.h - ONE \div 2, 0, (tex.h - 1) * ONE)
        i0 == u \div ONE
        f  == u % ONE
    IN  (texelFetch(tex, i0) * (ONE - f) + texelFetch(tex, i0 + 1) * f) \div ONE

\* texture2D on a NEAREST, CLAMP_TO_EDGE texture
texture2DNearest(tex, y) == texelFetch(tex, (y * tex.h) \div ONE)

\* texture2D: the filter is a parameter of the texture object
texture2D(tex, y) ==
    IF tex.filter = "linear" THEN texture2DLinear(tex, y) ELSE texture2DNearest(tex, y)

\* texture2D on a float texture of the segmenter (category, confidence)
texture2DFloat(tex, y) ==
    IF tex.h = 0 THEN 0 ELSE tex.px[clamp((y * tex.h) \div ONE, 0, tex.h - 1) + 1]

\* the quad with a_texCoord y = 0 at a_position y = -1
vTexCoordUnflipped(j, h) == ((2 * j + 1) * ONE) \div (2 * h)

\* v_texCoord.y at the centre of fragment row j (rows counted bottom-up) of a
\* target h rows high: a_position y = -1 carries a_texCoord y = 1.
vTexCoord(j, h) == ONE - ((2 * j + 1) * ONE) \div (2 * h)

(***************************************************************************)
(* State-update fragment shader                                            *)
(***************************************************************************)
sampleBlurred(tex, coord, radius, u_resolution) ==
    LET ts == ONE \div u_resolution.y
        s  == Mul(radius, ts)
    IN  ( texture2D(tex, coord - s) * 1
        + texture2D(tex, coord - s) * 2
        + texture2D(tex, coord - s) * 1
        + texture2D(tex, coord) * 2
        + texture2D(tex, coord) * 4
        + texture2D(tex, coord) * 2
        + texture2D(tex, coord + s) * 1
        + texture2D(tex, coord + s) * 2
        + texture2D(tex, coord + s) * 1 ) \div 16

\* lower / upper stickiness multipliers, mix(0.7, 0.25, stickiness)
StickWeak == 7000

StickStrong == 2500

stickinessApplies(categoryValue, prevCategoryValue) ==
    categoryValue < 5000 /\ prevCategoryValue > 3000

\* mix(0.7, 2.5, stickiness)
stickinessFactorAmplifying(prevCategoryValue) ==
    mix(StickWeak, 10 * StickStrong, smoothstep(3000, 8000, prevCategoryValue, 0))

stickinessFactor(prevCategoryValue) ==
    mix(StickWeak, StickStrong, smoothstep(3000, 8000, prevCategoryValue, 0))

\* alpha * categoryValue + prevCategoryValue
blendStateUnweighted(alpha, categoryValue, prevCategoryValue) ==
    (alpha * categoryValue + ONE * prevCategoryValue) \div ONE

blendState(alpha, categoryValue, prevCategoryValue) ==
    (alpha * categoryValue + (ONE - alpha) * prevCategoryValue) \div ONE

\* the block without `confidenceValue = 1.0 - confidenceValue'
foregroundConfidenceKept(categoryValue, confidenceValue) == confidenceValue

\* confidenceValue after the `if (categoryValue > 0.0)' block
foregroundConfidence(categoryValue, confidenceValue) ==
    IF categoryValue > 0 THEN ONE - confidenceValue ELSE confidenceValue

\* an optional option that was left out
Undefined == 0 - 2

orDefault(x, d) == IF x = Undefined THEN d ELSE x

\* the uniforms of the state-update program
stateUniforms(categoryTexture, confidenceTexture, prevStateTexture, su_options, resolution) ==
    [ categoryTexture |-> categoryTexture,
      confidenceTexture |-> confidenceTexture,
      prevStateTexture |-> prevStateTexture,
      smoothingFactor |-> su_options.smoothing,
      smoothstepMin |-> su_options.smoothstepMin,
      smoothstepMax |-> su_options.smoothstepMax,
      selfieModel |-> su_options.selfieModel,
      resolution |-> resolution,
      stateBlurRadius |-> orDefault(su_options.stateBlurRadius, 60000) ]

\* main() of the state-update shader for one fragment.  The result records
\* the intermediate values next to newCategoryValue.
stateUpdateMain(u, v_texCoord, undef) ==
    LET u_categoryTexture   == u.categoryTexture
        u_confidenceTexture == u.confidenceTexture
        u_prevStateTexture  == u.prevStateTexture
        u_smoothingFactor   == u.smoothingFactor
        u_smoothstepMin     == u.smoothstepMin
        u_smoothstepMax     == u.smoothstepMax
        u_selfieModel       == u.selfieModel
        u_resolution        == u.resolution
        u_stateBlurRadius   == u.stateBlurRadius
        prevCoord == ONE - v_texCoord
        cat0  == texture2DFloat(u_categoryTexture, v_texCoord)
        conf0 == texture2DFloat(u_confidenceTexture, v_texCoord)
        cat1  == IF u_selfieModel = 1 THEN ONE - cat0 ELSE cat0
        conf1 == IF u_selfieModel = 1 THEN ONE - conf0 ELSE conf0
        categoryValue   == IF cat1 > 0 THEN ONE ELSE cat1
        confidenceValue == foregroundConfidence(cat1, conf1)
        nonLinearConfidence ==
            smoothstep(u_smoothstepMin, u_smoothstepMax, confidenceValue, undef)
        prevCategoryValue ==
            sampleBlurred(u_prevStateTexture, prevCoord, u_stateBlurRadius, u_resolution)
        base    == Mul(u_smoothingFactor, nonLinearConfidence)
        applies == stickinessApplies(categoryValue, prevCategoryValue)
        factor  == stickinessFactor(prevCategoryValue)
        alpha   == IF applies THEN Mul(base, factor) ELSE base
    IN  [ nan               |-> nonLinearConfidence = NaN,
          newCategoryValue  |-> IF nonLinearConfidence = NaN THEN 0
                                ELSE blendState(alpha, categoryValue, prevCategoryValue),
          categoryValue     |-> categoryValue,
          prevCategoryValue |-> prevCategoryValue,
          base              |-> base,
          alpha             |-> alpha,
          applies           |-> applies,
          factor            |-> factor ]

\* the byte the colour buffer holds after gl_FragColor.r = the shader's result
storedByte(result, nanByte) ==
    IF result.nan THEN nanByte ELSE ToUnorm8(result.newCategoryValue)

(***************************************************************************)
(* Blend fragment shader                                                   *)
(***************************************************************************)
\* The 3x3 weighted mask sample both blending laws start with
sampleMask(u_currentStateTexture, categoryCoord, s, u_canvasDimensions) ==
    LET texelSize == ONE \div u_canvasDimensions.y
        d         == Mul(s, texelSize)
    IN  ( texture2D(u_currentStateTexture, categoryCoord - d) * 1
        + texture2D(u_currentStateTexture, categoryCoord - d) * 2
        + texture2D(u_currentStateTexture, categoryCoord - d) * 1
        + texture2D(u_currentStateTexture, categoryCoord) * 2
        + texture2D(u_currentStateTexture, categoryCoord) * 4
        + texture2D(u_currentStateTexture, categoryCoord) * 2
        + texture2D(u_currentStateTexture, categoryCoord + d) * 1
        + texture2D(u_currentStateTexture, categoryCoord + d) * 2
        + texture2D(u_currentStateTexture, categoryCoord + d) * 1 ) \div 16

\* blurColor(blur, radius, false): a Gaussian-weighted mean of frame texels on
\* a disc around the fragment.  The samples at offset 0 read the fragment's
\* own texel; `share' is the fraction of the total weight whose samples fall
\* beyond the fragment's texel (exp, sin and cos are not evaluated).
blurColor(u_frameTexture, v_texCoord, u_bgBlurRadius, u_canvasDimensions, share) ==
    LET texelSize == ONE \div u_canvasDimensions.y
        reach     == Mul(u_bgBlurRadius, texelSize)
        own       == texture2D(u_frameTexture, v_texCoord)
        above     == texture2D(u_frameTexture, v_texCoord - reach)
        below     == texture2D(u_frameTexture, v_texCoord + reach)
    IN  mix(own, (above + below) \div 2, share)

\* the blur law selected by the intensity alone
blurLawIgnoringRadius(u_bgBlur, u_bgBlurRadius) == u_bgBlur > 0

\* which blending law main() runs
blurLaw(u_bgBlur, u_bgBlurRadius) == u_bgBlur > 0 /\ u_bgBlurRadius > 0

\* a mapping that stretches the background over the canvas
aspectFillStretched(u_canvasDimensions, u_bgImageDimensions) ==
    [scaleX |-> ONE, scaleY |-> ONE, offsetX |-> 0, offsetY |-> 0]

\* scale and offset of the aspect-fill ("cover") mapping
aspectFill(u_canvasDimensions, u_bgImageDimensions) ==
    LET canvasAspect == (u_canvasDimensions.x * ONE) \div u_canvasDimensions.y
        bgAspect     == (u_bgImageDimensions.x * ONE) \div u_bgImageDimensions.y
    IN  IF canvasAspect < bgAspect
        THEN LET scaleX == (bgAspect * ONE) \div canvasAspect
             IN  [scaleX |-> scaleX, scaleY |-> ONE,
                  offsetX |-> (ONE - scaleX) \div 2, offsetY |-> 0]
        ELSE LET scaleY == (canvasAspect * ONE) \div bgAspect
             IN  [scaleX |-> ONE, scaleY |-> scaleY,
                  offsetX |-> 0, offsetY |-> (ONE - scaleY) \div 2]

\* bgTexCoord.x for the fragment at horizontal coordinate x
bgTexCoordX(x, u_canvasDimensions, u_bgImageDimensions) ==
    LET a == aspectFill(u_canvasDimensions, u_bgImageDimensions)
    IN  ((x - a.offsetX) * ONE) \div a.scaleX

\* bgTexCoord.y: the vertical background coordinate
bgTexCoord(v_texCoord, u_canvasDimensions, u_bgImageDimensions) ==
    LET a == aspectFill(u_canvasDimensions, u_bgImageDimensions)
    IN  ((v_texCoord - a.offsetY) * ONE) \div a.scaleY

\* main() of the blend shader for one fragment; u is the record of uniforms
\* and bound textures.  The result says which textures were sampled.
blendMain(u, v_texCoord, env) ==
    IF u.enabled = 0
    THEN [ color |-> texture2D(u.frameTexture, v_texCoord), nan |-> FALSE,
           law |-> "off", readsMask |-> FALSE, readsBackground |-> FALSE ]
    ELSE
    LET categoryCoord == ONE - v_texCoord
        categoryValue == sampleMask(u.currentStateTexture, categoryCoord,
                                    u.blendSpatialBlur, u.canvasDimensions)
        sharp         == texture2D(u.frameTexture, v_texCoord)
    IN  IF blurLaw(u.bgBlur, u.bgBlurRadius)
        THEN LET softMask == smoothstep(Mul(u.borderSmooth, 3000),
                                        ONE - Mul(u.borderSmooth, 3000),
                                        categoryValue, env.undef)
                 blurred  == blurColor(u.frameTexture, v_texCoord, u.bgBlurRadius,
                                       u.canvasDimensions, env.share)
             IN  [ color |-> IF softMask = NaN THEN 0 ELSE mix(blurred, sharp, softMask),
                   nan |-> softMask = NaN,
                   law |-> "blur", readsMask |-> TRUE, readsBackground |-> FALSE ]
        ELSE LET softMask == smoothstep(u.vbgSmoothstepMin, u.vbgSmoothstepMax,
                                        categoryValue, env.undef)
                 bgColor  == texture2D(u.backgroundTexture,
                                       bgTexCoord(v_texCoord, u.canvasDimensions,
                                                  u.bgImageDimensions))
             IN  [ color |-> IF softMask = NaN THEN 0 ELSE mix(bgColor, sharp, softMask),
                   nan |-> softMask = NaN,
                   law |-> "vbg", readsMask |-> TRUE, readsBackground |-> TRUE ]

\* a draw over a zero-area target shades no fragment
NoFragment ==
    [ color |-> 0, nan |-> FALSE, law |-> "none", readsMask |-> FALSE,
      readsBackground |-> FALSE ]

\* the byte the canvas holds for a fragment colour
canvasByte(frag, nanByte) == IF frag.nan THEN nanByte ELSE ToUnorm8(frag.color)

(***************************************************************************)
(* GL texture objects                                                      *)
(***************************************************************************)
NULL == 0

\* gl is a record [tex, next]: the live texture objects and the next name
lookup(gl, handle) == IF handle \in DOMAIN gl.tex THEN gl.tex[handle] ELSE NoTexture

\* gl.createTexture() followed by the texImage2D / texParameteri that define it
newTexture(gl, image) ==
    [ tex  |-> [h \in DOMAIN gl.tex \cup {gl.next} |->
                  IF h = gl.next THEN image ELSE gl.tex[h]],
      next |-> gl.next + 1 ]

\* gl.texImage2D on an existing texture object
texImage2D(gl, handle, image) ==
    IF handle \in DOMAIN gl.tex
    THEN [gl EXCEPT !.tex = [gl.tex EXCEPT ![handle] = image]]
    ELSE gl

deleteTexture(gl, handle) ==
    [gl EXCEPT !.tex = [h \in DOMAIN gl.tex \ {handle} |-> gl.tex[h]]]

image(kind, filter, w, h, px) ==
    [kind |-> kind, filter |-> filter, w |-> w, h |-> h, px |-> px]

blank(h) == [r \in 1..h |-> 0]

\* element i (counted from 0) of a JavaScript array, undefined past its end
at(arr, i) == IF i + 1 \in DOMAIN arr THEN arr[i + 1] ELSE NULL

(***************************************************************************)
(* Background cache: updateBackgroundIfNeeded                              *)
(***************************************************************************)
NoInfo == [type |-> "null", texture |-> NULL]

NoId == "<null>"

NoSource == [type |-> "null", url |-> "<none>"]

\* red channel of DEFAULT_BG_COLOR
DEFAULT_BG_COLOR == 33

DefaultColorId == "color(33,150,243,255)"

identifierOf(newSource) ==
    IF newSource = NoSource THEN DefaultColorId ELSE newSource.url

cacheHit(newIdentifier, activeId, info) ==
    newIdentifier = activeId /\ info # NoInfo

\* createColorTexture and the ColorInfo built from it.  b is the record
\* [info, id, gl, created, deleted, threw, log] the update works on; log lists
\* its createTexture and deleteTexture calls in the order they are made.
colorBackground(b, createOk) ==
    IF ~createOk THEN [b EXCEPT !.threw = TRUE]
    ELSE [b EXCEPT !.gl = newTexture(b.gl, image("bg", "nearest", 1, 1, <<DEFAULT_BG_COLOR>>)),
                   !.info = [type |-> "color", texture |-> b.gl.next,
                             color |-> DEFAULT_BG_COLOR],
                   !.id = DefaultColorId,
                   !.created = b.created + 1,
                   !.log = Append(b.log, "create")]

imageBackground(b, newSource, createOk) ==
    IF ~createOk THEN [b EXCEPT !.threw = TRUE]
    ELSE [b EXCEPT !.gl = newTexture(b.gl, image("bg", "linear", newSource.media.w,
                                                 newSource.media.h, newSource.media.px)),
                   !.info = [type |-> "image", texture |-> b.gl.next,
                             width |-> newSource.media.w, height |-> newSource.media.h,
                             url |-> newSource.url],
                   !.created = b.created + 1,
                   !.log = Append(b.log, "create")]

\* the decode canvas starts as a blank 1x1 OffscreenCanvas
videoBackground(b, newSource, createOk) ==
    IF ~createOk THEN [b EXCEPT !.threw = TRUE]
    ELSE [b EXCEPT !.gl = newTexture(b.gl, image("bg", "linear", 1, 1, <<0>>)),
                   !.info = [type |-> "video", texture |-> b.gl.next,
                             url |-> newSource.url, media |-> newSource.media,
                             canvas |-> [width |-> 1, height |-> 1, px |-> <<0>>]],
                   !.created = b.created + 1,
                   !.log = Append(b.log, "create")]

\* releaseBackground without the gl.deleteTexture
releaseBackgroundLeaking(b) ==
    IF b.info # NoInfo
    THEN [b EXCEPT !.info = NoInfo,
                   !.deleted = b.deleted + 1,
                   !.log = Append(b.log, "delete")]
    ELSE b

releaseBackground(b) ==
    IF b.info # NoInfo
    THEN [b EXCEPT !.gl = deleteTexture(b.gl, b.info.texture),
                   !.info = NoInfo,
                   !.deleted = b.deleted + 1,
                   !.log = Append(b.log, "delete")]
    ELSE b

updateBackgroundIfNeeded(b, newSource, createOk) ==
    LET newIdentifier == identifierOf(newSource)
    IN  IF cacheHit(newIdentifier, b.id, b.info) THEN b
        ELSE LET b1 == [releaseBackground(b) EXCEPT !.id = newIdentifier]
                 b2 == IF newSource = NoSource THEN colorBackground(b1, createOk)
                       ELSE IF newSource.type = "image"
                            THEN imageBackground(b1, newSource, createOk)
                       ELSE IF newSource.type = "video"
                            THEN videoBackground(b1, newSource, createOk)
                       ELSE b1
             IN  IF ~b2.threw /\ b2.info = NoInfo
                 THEN colorBackground(b2, createOk)
                 ELSE b2

(***************************************************************************)
(* WebGLRenderer.render and close                                          *)
(***************************************************************************)
\* a mask texture argument that was not supplied
NoMask == [h |-> 0, px |-> <<>>]

renderRefused(isRunning) == ~isRunning

passthroughOnlyWithoutBoth(categoryTexture, confidenceTexture) ==
    categoryTexture = NoMask /\ confidenceTexture = NoMask

passthroughFrame(categoryTexture, confidenceTexture) ==
    categoryTexture = NoMask \/ confidenceTexture = NoMask

readStateIndexOf(cur) == cur

writeStateIndexAliased(cur) == cur

writeStateIndexOf(cur) == (cur + 1) % 2

committedStateIndexKept(cur, writeStateIndex) == cur

committedStateIndex(cur, writeStateIndex) == writeStateIndex

\* the resize made only when the width differs
resizeCanvasOnWidth(c, width, height) ==
    IF c.width # width
    THEN [width |-> width, height |-> height, px |-> blank(height)]
    ELSE c

resizeCanvas(c, width, height) ==
    IF c.width # width \/ c.height # height
    THEN [width |-> width, height |-> height, px |-> blank(height)]
    ELSE c

\* the draw of the state-update program into the framebuffer texture:
\* fragment row j (bottom-up) is row j of the attached texture
stateUpdatePass(u, height, env) ==
    [j \in 1..height |->
        storedByte(stateUpdateMain(u, vTexCoord(j - 1, height), env.undef), env.nanByte)]

\* the draw of the blend program to the canvas: image row r (top-down) is
\* fragment row height - r
blendPass(u, height, env) ==
    [r \in 1..height |->
        canvasByte(blendMain(u, vTexCoord(height - r, height), env), env.nanByte)]

\* render without its gl.deleteTexture(frameTexture)
deleteFrameTextureSkipped(gl, frameTexture) == gl

\* gl.deleteTexture(frameTexture) after the draw to the canvas
deleteFrameTexture(gl, frameTexture) == deleteTexture(gl, frameTexture)

\* the frame texture: texImage2D(videoFrame) without UNPACK_FLIP_Y
frameImage(videoFrame) ==
    image("frame", "nearest", videoFrame.displayWidth, videoFrame.displayHeight,
          videoFrame.px)

NoCall ==
    [ kind |-> "none", categorySupplied |-> FALSE, confidenceSupplied |-> FALSE,
      enabledOption |-> FALSE, frame |-> <<>>, width |-> 0, height |-> 0,
      out |-> <<>>, uEnabled |-> 0 - 1,
      readStateIndex |-> 0 - 1, writeStateIndex |-> 0 - 1,
      prevStateTexture |-> NULL, newStateTexture |-> NULL,
      currentStateTexture |-> NULL, prevState |-> NoTexture, request |-> "<none>",
      bgCreated |-> 0, bgDeleted |-> 0, bgOps |-> <<>>,
      frameCreated |-> 0, frameDeleted |-> 0,
      law |-> "none", readsMask |-> FALSE, readsBackground |-> FALSE,
      ops |-> <<>> ]

callOf(kind, videoFrame, options, categoryTexture, confidenceTexture) ==
    [NoCall EXCEPT !.kind = kind,
                   !.categorySupplied = categoryTexture # NoMask,
                   !.confidenceSupplied = confidenceTexture # NoMask,
                   !.enabledOption = options.enabled,
                   !.frame = videoFrame.px,
                   !.width = videoFrame.displayWidth,
                   !.height = videoFrame.displayHeight]

\* close() without `this.backgroundRenderInfo = null'
closeKeepingBackground(r) ==
    IF ~r.running THEN r
    ELSE [r EXCEPT !.running = FALSE,
                   !.canvas.px = blank(r.canvas.height),
                   !.storedStateTextures = <<>>,
                   !.activeBackgroundSourceIdentifier = NoId,
                   !.gl.tex = [h \in DOMAIN r.gl.tex \
                                 ({r.storedStateTextures[i] :
                                     i \in DOMAIN r.storedStateTextures}
                                  \cup {r.backgroundRenderInfo.texture})
                               |-> r.gl.tex[h]]]

\* the state close() leaves behind
close(r) ==
    IF ~r.running THEN r
    ELSE LET gl1 == [r.gl EXCEPT !.tex = [h \in DOMAIN r.gl.tex \
                                            {r.storedStateTextures[i] :
                                               i \in DOMAIN r.storedStateTextures}
                                          |-> r.gl.tex[h]]]
             gl2 == IF r.backgroundRenderInfo.texture # NULL
                    THEN deleteTexture(gl1, r.backgroundRenderInfo.texture)
                    ELSE gl1
         IN  [r EXCEPT !.running = FALSE,
                       !.canvas.px = blank(r.canvas.height),
                       !.storedStateTextures = <<>>,
                       !.backgroundRenderInfo =
                           IF r.backgroundRenderInfo.texture # NULL THEN NoInfo
                           ELSE r.backgroundRenderInfo,
                       !.activeBackgroundSourceIdentifier = NoId,
                       !.gl = gl2]

\* write(videoFrame) of the WritableStream a video background is piped to
decodeWrite(info, videoFrame) ==
    [info EXCEPT !.canvas = [width |-> videoFrame.displayWidth,
                             height |-> videoFrame.displayHeight,
                             px |-> videoFrame.px]]

(***************************************************************************)
(* The renderer as a state machine                                         *)
(***************************************************************************)
\* textures a run may create
MaxTextures == 6

Renderer ==
    [ running |-> running,
      currentStateIndex |-> currentStateIndex,
      storedStateTextures |-> storedStateTextures,
      backgroundRenderInfo |-> backgroundRenderInfo,
      activeBackgroundSourceIdentifier |-> activeBackgroundSourceIdentifier,
      canvas |-> canvas,
      gl |-> [tex |-> glTextures, next |-> nextTexture] ]

Becomes(r) ==
    /\ running' = r.running
    /\ currentStateIndex' = r.currentStateIndex
    /\ storedStateTextures' = r.storedStateTextures
    /\ backgroundRenderInfo' = r.backgroundRenderInfo
    /\ activeBackgroundSourceIdentifier' = r.activeBackgroundSourceIdentifier
    /\ canvas' = r.canvas
    /\ glTextures' = r.gl.tex
    /\ nextTexture' = r.gl.next

NoHistory == [written |-> NULL, request |-> "<none>", created |-> 0]

\* a state texture uploaded as [255, 0, 0, 255]
initialStateTextureOpaque == image("state", "linear", 1, 1, <<255>>)

\* the 1x1 texture new Uint8Array([0, 0, 0, 255]) both state textures start as
initialStateTexture == image("state", "linear", 1, 1, <<0>>)

\* the renderer the constructor leaves: two 1x1 state textures with red 0
Constructed ==
    /\ running = TRUE
    /\ currentStateIndex = 0
    /\ storedStateTextures = <<1, 2>>
    /\ backgroundRenderInfo = NoInfo
    /\ activeBackgroundSourceIdentifier = NoId
    /\ canvas = [width |-> 300, height |-> 150, px |-> blank(150)]
    /\ glTextures = [h \in {1, 2} |-> initialStateTexture]
    /\ nextTexture = 3
    /\ last = NoCall
    /\ hist = NoHistory

Idle == [pc |-> "idle"]

Init == Constructed /\ su = Idle /\ tr = Idle /\ vb = Idle /\ bl = Idle /\ fx = Idle /\ wk = Idle /\ fp = Idle /\ rn = Idle /\ rec = Idle

\* ---- inputs of the render calls explored ----
Frame1 == [displayWidth |-> 1, displayHeight |-> 1, px |-> <<200>>]

Frame2 == [displayWidth |-> 1, displayHeight |-> 2, px |-> <<40, 200>>]

Frames == {Frame1, Frame2}

\* a frame two pixels wide
FrameWide == [displayWidth |-> 2, displayHeight |-> 2, px |-> <<40, 200>>]

\* a frame of zero area
Frame0 == [displayWidth |-> 1, displayHeight |-> 0, px |-> <<>>]

ImageA == [type |-> "image", url |-> "A", media |-> [w |-> 1, h |-> 2, px |-> <<60, 120>>]]

VideoV == [type |-> "video", url |-> "V", media |-> "streamV"]

OtherX == [type |-> "text", url |-> "X"]

Sources == {NoSource, ImageA, VideoV, OtherX}

DecodedFrames ==
    { [displayWidth |-> 1, displayHeight |-> 1, px |-> <<90>>],
      [displayWidth |-> 1, displayHeight |-> 2, px |-> <<10, 250>>] }

floatTexture(px) == [h |-> Len(px), px |-> px]

\* all-foreground masks (category 1, background confidence 0)
ForegroundMasks(h) ==
    [category |-> floatTexture([i \in 1..h |-> ONE]),
     confidence |-> floatTexture([i \in 1..h |-> 0])]

\* top row foreground, the rest background (category 0, background confidence 1)
MixedMasks(h) ==
    [category |-> floatTexture([i \in 1..h |-> IF i = 1 THEN ONE ELSE 0]),
     confidence |-> floatTexture([i \in 1..h |-> IF i = 1 THEN 0 ELSE ONE])]

BackgroundMasks(h) ==
    [category |-> floatTexture([i \in 1..h |-> 0]),
     confidence |-> floatTexture([i \in 1..h |-> ONE])]

NoMasks == [category |-> NoMask, confidence |-> NoMask]

CategoryOnly(h) == [ForegroundMasks(h) EXCEPT !.confidence = NoMask]

\* the global options of processVideoTrack after applyEffect('blur'),
\* applyEffect('background') and with effects disabled
OptionsFor(mode, enabled, source) ==
    [ enabled |-> enabled,
      smoothing |-> 7000, smoothstepMin |-> 2500, smoothstepMax |-> 8500,
      backgroundSource |-> source,
      borderSmooth |-> 6000,
      bgBlur |-> IF mode = "blur" THEN 200000 ELSE 0,
      bgBlurRadius |-> 300000,
      stateBlurRadius |-> 60000,
      blendSpatialBlurBlur |-> 80000,
      blendSpatialBlurVbg |-> 140000,
      vbgSmoothstepMin |-> 4000, vbgSmoothstepMax |-> 6000 ]

Env(createOk) == [createOk |-> createOk, undef |-> NaN, nanByte |-> 0, share |-> ONE \div 2]

input(videoFrame, options, masks, useSelfieModel, env) ==
    [videoFrame |-> videoFrame, options |-> options, masks |-> masks,
     useSelfieModel |-> useSelfieModel, env |-> env]

RenderInputs ==
       { input(f, OptionsFor("vbg", TRUE, NoSource), m, FALSE, Env(TRUE)) :
           f \in Frames,
           m \in {NoMasks, CategoryOnly(2), ForegroundMasks(2), MixedMasks(2)} }
  \cup { input(Frame2, OptionsFor(mode, TRUE, src), ForegroundMasks(2), FALSE, Env(TRUE)) :
           mode \in {"blur", "vbg"}, src \in Sources }
  \cup { input(Frame2, OptionsFor("vbg", FALSE, src), m, FALSE, Env(TRUE)) :
           src \in {NoSource, ImageA}, m \in {NoMasks, MixedMasks(2)} }
  \cup { input(Frame1, OptionsFor("blur", TRUE, NoSource), BackgroundMasks(1), TRUE, Env(TRUE)) }
  \cup { input(f, OptionsFor("vbg", TRUE, NoSource), m, FALSE, Env(TRUE)) :
           f \in {Frame0, FrameWide}, m \in {NoMasks, ForegroundMasks(2)} }
  \cup { input(Frame2, OptionsFor("vbg", TRUE, src), ForegroundMasks(2), FALSE, Env(FALSE)) :
           src \in Sources }

historyAfter(h, call) ==
    IF call.kind = "effecting"
    THEN [written |-> call.newStateTexture, request |-> call.request,
          created |-> call.bgCreated]
    ELSE IF call.kind = "throw" THEN [h EXCEPT !.request = "<none>", !.created = 0]
    ELSE h

\* render, the branch taken when a mask texture is missing.  c is the canvas
\* after the resize at the top of render.
Passthrough(i, c) ==
    \E frameTexture \in {nextTexture} :
    \E gl1 \in {newTexture([tex |-> glTextures, next |-> nextTexture],
                           frameImage(i.videoFrame))} :
    \E u \in {[enabled |-> 0, frameTexture |-> lookup(gl1, frameTexture)]} :
    \E out \in {blendPass(u, c.height, i.env)} :
    \E frag \in {IF c.height = 0 THEN NoFragment
                 ELSE blendMain(u, vTexCoord(0, 1), i.env)} :
    \E gl2 \in {deleteFrameTexture(gl1, frameTexture)} :
        /\ canvas' = [c EXCEPT !.px = out]
        /\ glTextures' = gl2.tex
        /\ nextTexture' = gl2.next
        /\ last' = [callOf("passthrough", i.videoFrame, i.options,
                           i.masks.category, i.masks.confidence)
                      EXCEPT !.out = out, !.uEnabled = u.enabled,
                             !.frameCreated = gl1.next - nextTexture,
                             !.frameDeleted =
                                 IF frameTexture \in DOMAIN gl2.tex THEN 0 ELSE 1,
                             !.law = frag.law, !.readsMask = frag.readsMask,
                             !.readsBackground = frag.readsBackground,
                             !.ops = <<"blend">>]
        /\ UNCHANGED <<running, currentStateIndex, storedStateTextures,
                       backgroundRenderInfo, activeBackgroundSourceIdentifier, hist>>

\* the uniforms and texture units of the blend program in the effecting branch
blendUniforms(gl, options, info, frameTexture, currentStateTexture, width, height) ==
    LET isBlurMode == options.bgBlur > 0 /\ options.bgBlurRadius > 0
        bgWidth  == IF info.type = "video" THEN info.canvas.width
                    ELSE IF info.type = "image" THEN info.width ELSE 1
        bgHeight == IF info.type = "video" THEN info.canvas.height
                    ELSE IF info.type = "image" THEN info.height ELSE 1
    IN  [ enabled |-> 1,
          frameTexture |-> lookup(gl, frameTexture),
          currentStateTexture |-> lookup(gl, currentStateTexture),
          backgroundTexture |-> lookup(gl, info.texture),
          bgImageDimensions |-> [x |-> IF bgWidth > 0 THEN bgWidth ELSE 1,
                                 y |-> IF bgHeight > 0 THEN bgHeight ELSE 1],
          canvasDimensions |-> [x |-> width, y |-> height],
          borderSmooth |-> options.borderSmooth,
          bgBlur |-> options.bgBlur,
          bgBlurRadius |-> options.bgBlurRadius,
          blendSpatialBlur |->
              IF isBlurMode THEN orDefault(options.blendSpatialBlurBlur, 80000)
              ELSE orDefault(options.blendSpatialBlurVbg, 140000),
          vbgSmoothstepMin |-> orDefault(options.vbgSmoothstepMin, 4000),
          vbgSmoothstepMax |-> orDefault(options.vbgSmoothstepMax, 6000) ]

\* render without the re-upload of the decode canvas
refreshVideoBackgroundSkipped(gl, info) == gl

\* the re-upload of a video background from its decode canvas
refreshVideoBackground(gl, info) ==
    IF info.type = "video"
    THEN texImage2D(gl, info.texture,
                    image("bg", "linear", info.canvas.width, info.canvas.height,
                          info.canvas.px))
    ELSE gl

\* render, the rest: background update, state-update pass, blend pass, swap
Effecting(i, c) ==
    \E width \in {i.videoFrame.displayWidth}, height \in {i.videoFrame.displayHeight} :
    \E readStateIndex \in {readStateIndexOf(currentStateIndex)} :
    \E writeStateIndex \in {writeStateIndexOf(currentStateIndex)} :
    \E prevStateTexture \in {at(storedStateTextures, readStateIndex)} :
    \E newStateTexture \in {at(storedStateTextures, writeStateIndex)} :
    \E b \in {updateBackgroundIfNeeded(
                 [info |-> backgroundRenderInfo,
                  id |-> activeBackgroundSourceIdentifier,
                  gl |-> [tex |-> glTextures, next |-> nextTexture],
                  created |-> 0, deleted |-> 0, threw |-> FALSE, log |-> <<>>],
                 i.options.backgroundSource, i.env.createOk)} :
    \E base \in {[callOf("effecting", i.videoFrame, i.options,
                         i.masks.category, i.masks.confidence)
                    EXCEPT !.readStateIndex = readStateIndex,
                           !.writeStateIndex = writeStateIndex,
                           !.prevStateTexture = prevStateTexture,
                           !.newStateTexture = newStateTexture,
                           !.request = identifierOf(i.options.backgroundSource),
                           !.bgCreated = b.created, !.bgDeleted = b.deleted,
                           !.bgOps = b.log]} :
      /\ backgroundRenderInfo' = b.info
      /\ activeBackgroundSourceIdentifier' = b.id
      /\ UNCHANGED <<running, storedStateTextures>>
      /\ IF b.threw
         THEN /\ canvas' = c
              /\ glTextures' = b.gl.tex
              /\ nextTexture' = b.gl.next
              /\ last' = [base EXCEPT !.kind = "throw", !.out = c.px]
              /\ hist' = historyAfter(hist, last')
              /\ UNCHANGED currentStateIndex
         ELSE
           \* State Update Pass
           \E gl1 \in {texImage2D(b.gl, newStateTexture,
                                  image("state", "linear", width, height, blank(height)))} :
           \E prev \in {lookup(gl1, prevStateTexture)} :
           \E su_u \in {stateUniforms(i.masks.category, i.masks.confidence, prev,
                                        [smoothing |-> i.options.smoothing,
                                         smoothstepMin |-> i.options.smoothstepMin,
                                         smoothstepMax |-> i.options.smoothstepMax,
                                         selfieModel |-> IF i.useSelfieModel THEN 1 ELSE 0,
                                         stateBlurRadius |-> i.options.stateBlurRadius],
                                        [x |-> width, y |-> height])} :
           \E newPx \in {stateUpdatePass(su_u, height, i.env)} :
           \E gl2 \in {texImage2D(gl1, newStateTexture,
                                  image("state", "linear", width, height, newPx))} :
           \* Blending Pass
           \E frameTexture \in {gl2.next} :
           \E gl3 \in {newTexture(gl2, frameImage(i.videoFrame))} :
           \E currentStateTexture \in {at(storedStateTextures, writeStateIndex)} :
           \E gl4 \in {refreshVideoBackground(gl3, b.info)} :
           \E u \in {blendUniforms(gl4, i.options, b.info, frameTexture,
                                   currentStateTexture, width, height)} :
           \E out \in {blendPass(u, c.height, i.env)} :
           \E frag \in {IF height = 0 THEN NoFragment
                        ELSE blendMain(u, vTexCoord(0, 1), i.env)} :
           \* Cleanup
           \E gl5 \in {deleteFrameTexture(gl4, frameTexture)} :
              /\ canvas' = [c EXCEPT !.px = out]
              /\ glTextures' = gl5.tex
              /\ nextTexture' = gl5.next
              /\ currentStateIndex' =
                     committedStateIndex(currentStateIndex, writeStateIndex)
              /\ last' = [base EXCEPT !.out = out, !.uEnabled = u.enabled,
                                      !.prevState = prev,
                                      !.currentStateTexture = currentStateTexture,
                                      !.frameCreated = gl3.next - gl2.next,
                                      !.frameDeleted =
                                          IF frameTexture \in DOMAIN gl5.tex THEN 0 ELSE 1,
                                      !.law = frag.law, !.readsMask = frag.readsMask,
                                      !.readsBackground = frag.readsBackground,
                                      !.ops = <<"stateUpdate", "blend", "swap">>]
              /\ hist' = historyAfter(hist, last')

\* render(videoFrame, options, categoryTexture, confidenceTexture, useSelfieModel)
Render ==
    /\ nextTexture <= MaxTextures
    /\ \E i \in RenderInputs :
         IF renderRefused(running)
         THEN /\ last' = [callOf("noop", i.videoFrame, i.options, i.masks.category,
                                 i.masks.confidence) EXCEPT !.out = canvas.px]
              /\ UNCHANGED <<running, currentStateIndex, storedStateTextures,
                             backgroundRenderInfo, activeBackgroundSourceIdentifier,
                             canvas, glTextures, nextTexture, hist>>
         ELSE \E c \in {resizeCanvas(canvas, i.videoFrame.displayWidth,
                                     i.videoFrame.displayHeight)} :
                IF passthroughFrame(i.masks.category, i.masks.confidence)
                THEN Passthrough(i, c)
                ELSE Effecting(i, c)
    /\ UNCHANGED <<su, tr, vb, bl, fx, wk, fp, rn, rec>>

\* close()
Close ==
    /\ \E r \in {close(Renderer)} : Becomes(r)
    /\ last' = [NoCall EXCEPT !.kind = "close", !.out = blank(canvas.height),
                              !.bgDeleted = IF running /\ backgroundRenderInfo # NoInfo
                                            THEN 1 ELSE 0]
    /\ UNCHANGED <<hist, su, tr, vb, bl, fx, wk, fp, rn, rec>>

\* the decode loop of a video background delivers a frame
DecodeWrite ==
    /\ backgroundRenderInfo.type = "video"
    /\ \E f \in DecodedFrames :
         backgroundRenderInfo' = decodeWrite(backgroundRenderInfo, f)
    /\ last' = [NoCall EXCEPT !.kind = "decode", !.out = canvas.px]
    /\ UNCHANGED <<running, currentStateIndex, storedStateTextures,
                   activeBackgroundSourceIdentifier, canvas, glTextures, nextTexture,
                   hist, su, tr, vb, bl, fx, wk, fp, rn, rec>>

Next == Render \/ Close \/ DecodeWrite

Spec == Init /\ [][Next]_vars

(***************************************************************************)
(* One evaluation of the state-update shader on drawn inputs               *)
(***************************************************************************)
byteTexture(px) == image("state", "linear", 1, Len(px), px)

SUCategory == {0, 4000, ONE}

SUConfidence == {0, 3000, 6000, ONE}

SUPrevious == {byteTexture(<<b>>) : b \in {0, 90, 200, 255}} \cup {byteTexture(<<0, 255>>)}

SUSmoothing == {0 - 5000, 0, 7000, ONE, 20000}

SUEdges == {<<2500, 8500>>, <<5000, 5000>>, <<8500, 2500>>}

SUFragments == {<<1, 0>>, <<2, 0>>, <<2, 1>>}

SUInputs ==
    { [ pc |-> "in", category |-> c, confidence |-> f, prev |-> p, smoothing |-> s,
        smoothstepMin |-> e[1], smoothstepMax |-> e[2], selfieModel |-> m,
        height |-> g[1], row |-> g[2], stateBlurRadius |-> r, undef |-> u,
        result |-> Idle, byte |-> 0 ] :
        c \in SUCategory, f \in SUConfidence, p \in SUPrevious, s \in SUSmoothing,
        e \in {x \in SUEdges : x[1] < x[2]}, m \in {0, 1}, g \in SUFragments,
        r \in {0, 60000}, u \in {0} }
  \cup
    { [ pc |-> "in", category |-> c, confidence |-> f, prev |-> p, smoothing |-> s,
        smoothstepMin |-> e[1], smoothstepMax |-> e[2], selfieModel |-> 0,
        height |-> 1, row |-> 0, stateBlurRadius |-> 60000, undef |-> u,
        result |-> Idle, byte |-> 0 ] :
        c \in SUCategory, f \in SUConfidence, p \in SUPrevious, s \in SUSmoothing,
        e \in {x \in SUEdges : x[1] >= x[2]}, u \in UndefOutcomes }

InitStateUpdate == Constructed /\ su \in SUInputs /\ tr = Idle /\ vb = Idle /\ bl = Idle /\ fx = Idle /\ wk = Idle /\ fp = Idle /\ rn = Idle /\ rec = Idle

\* the shader runs on the drawn fragment and its colour is stored
ApplyStateUpdate ==
    /\ su.pc = "in"
    /\ \E res \in {stateUpdateMain(
                        stateUniforms(floatTexture(<<su.category>>),
                                      floatTexture(<<su.confidence>>), su.prev,
                                      su,
                                      [x |-> 1, y |-> su.height]),
                        vTexCoord(su.row, su.height), su.undef)} :
           \E nanByte \in (IF res.nan THEN NaNBytes ELSE {0}) :
              su' = [su EXCEPT !.pc = "done", !.result = res,
                               !.byte = storedByte(res, nanByte)]
    /\ UNCHANGED <<rendererVars, tr, vb, bl, fx, wk, fp, rn, rec>>

NextStateUpdate == ApplyStateUpdate

SpecStateUpdate == InitStateUpdate /\ [][NextStateUpdate]_vars

(***************************************************************************)
(* The state-update recurrence over consecutive frames at one pixel        *)
(***************************************************************************)
\* frames a run of the recurrence feeds
NFrames == 30

TRSmoothing == {0, 3000, 7000, ONE}

TREdges == {<<2500, 8500>>, <<0, ONE>>}

\* confidence after the shader's inversions, shared by the paired runs
TRConfidence == {ONE, 9000, 6000}

\* last frame before the paired runs change class
TRTransition == 1..3

\* one frame of the recurrence: uniform 1x1 masks, previous state a 1x1 texture
frameUpdate(t, category, confidence, prevByte) ==
    stateUpdateMain(
        stateUniforms(floatTexture(<<category>>), floatTexture(<<confidence>>),
                      byteTexture(<<prevByte>>),
                      [smoothing |-> t.smoothing, smoothstepMin |-> t.smoothstepMin,
                       smoothstepMax |-> t.smoothstepMax, selfieModel |-> 0,
                       stateBlurRadius |-> Undefined],
                      [x |-> 1, y |-> 1]),
        vTexCoord(0, 1), 0)

\* a person frame / a background frame whose confidence after inversion is c:
\* the model reports background confidence
personFrame(c) == [category |-> ONE, confidence |-> ONE - c]

backgroundFrame(c) == [category |-> 0, confidence |-> c]

\* F: category 1, confidence 1.  G: category 1, confidence 0.
\* A: person up to frame k, background after.  B: background up to k, person after.
TRInputs ==
    { [ pc |-> "run", smoothing |-> s, smoothstepMin |-> e[1], smoothstepMax |-> e[2],
        c |-> c, k |-> k, n |-> 0,
        F |-> 0, Fprev |-> 0, G |-> 0, Gprev |-> 0,
        A |-> 0, Aprev |-> 0, resA |-> Idle,
        B |-> 0, Bprev |-> 0, resB |-> Idle ] :
        s \in TRSmoothing, e \in TREdges, c \in TRConfidence, k \in TRTransition }

InitTemporal == Constructed /\ su = Idle /\ tr \in TRInputs /\ vb = Idle /\ bl = Idle /\ fx = Idle /\ wk = Idle /\ fp = Idle /\ rn = Idle /\ rec = Idle

\* every run renders its next frame from the initial all-background state on
StepFrame ==
    /\ tr.pc = "run"
    /\ tr.n < NFrames
    /\ \E inA \in {IF tr.n < tr.k THEN personFrame(tr.c) ELSE backgroundFrame(tr.c)} :
       \E inB \in {IF tr.n < tr.k THEN backgroundFrame(tr.c) ELSE personFrame(tr.c)} :
       \E rF \in {frameUpdate(tr, ONE, ONE, tr.F)} :
       \E rG \in {frameUpdate(tr, ONE, 0, tr.G)} :
       \E rA \in {frameUpdate(tr, inA.category, inA.confidence, tr.A)} :
       \E rB \in {frameUpdate(tr, inB.category, inB.confidence, tr.B)} :
          tr' = [tr EXCEPT !.n = tr.n + 1,
                           !.Fprev = tr.F, !.F = storedByte(rF, 0),
                           !.Gprev = tr.G, !.G = storedByte(rG, 0),
                           !.Aprev = tr.A, !.A = storedByte(rA, 0), !.resA = rA,
                           !.Bprev = tr.B, !.B = storedByte(rB, 0), !.resB = rB]
    /\ UNCHANGED <<rendererVars, su, vb, bl, fx, wk, fp, rn, rec>>

NextTemporal == StepFrame

SpecTemporal == InitTemporal /\ [][NextTemporal]_vars

(***************************************************************************)
(* processVideoTrack: the options object, background loads and teardown    *)
(***************************************************************************)
\* assignments of options.backgroundUrl that start a load
MaxLoads == 2

\* output tracks processVideoTrack returns
MaxTracks == 2

\* stop() calls one output track receives
MaxStops == 2

\* the object URLs URL.createObjectURL returns, in the order of the calls
BlobUrls == <<"blob:1", "blob:2">>

\* url.startsWith('blob:')
isBlob(url) == \E k \in DOMAIN BlobUrls : BlobUrls[k] = url

\* the Content-Type fetch(url) answers with
ContentType(url) ==
    IF url = "A" \/ isBlob(url) THEN "image"
    ELSE IF url = "V" THEN "video"
    ELSE "text"

Urls == {"", "A", "V", "T"}

NoEvent == [kind |-> "none", url |-> "", orphaned |-> FALSE, teardown |-> FALSE]

\* the module after import: opts as declared, no worker, refcount 0.
\* tracks are the captured tracks of video backgrounds that run, outputs[t] is
\* the number of stop() calls output track t has received, revoked the object
\* URLs passed to URL.revokeObjectURL, blobs the number of object URLs made.
Loaded ==
    [ pc |-> "module", backgroundUrl |-> "", backgroundSource |-> NoSource,
      modelPath |-> "/models/selfie_multiclass_256x256.tflite", enabled |-> TRUE,
      bgBlur |-> 0,
      refcount |-> 0, outputs |-> <<>>, loads |-> {}, started |-> 0, tracks |-> {},
      revoked |-> {}, blobs |-> 0,
      previous |-> NoSource, event |-> NoEvent ]

\* the output tracks returned and not stopped
Live(v) == {t \in DOMAIN v.outputs : v.outputs[t] = 0}

unloadBackground(v) ==
    IF v.backgroundSource # NoSource
    THEN [v EXCEPT !.tracks = IF v.backgroundSource.type = "video"
                               THEN @ \ {v.backgroundSource.track} ELSE @,
                   !.backgroundSource = NoSource]
    ELSE v

\* loadBackground up to `await fetch(url)': the url is read when the call
\* starts, and an object URL that was revoked cannot be fetched
startLoad(v) ==
    IF v.backgroundUrl = "" THEN v
    ELSE [v EXCEPT !.started = @ + 1,
                   !.loads = @ \cup {[id |-> v.started + 1, url |-> v.backgroundUrl,
                                      orphaned |-> FALSE,
                                      revoked |-> v.backgroundUrl \in v.revoked]}]

\* the set trap before Reflect.set: the object URL held so far is revoked
revokeReplaced(v) ==
    IF isBlob(v.backgroundUrl) THEN [v EXCEPT !.revoked = @ \cup {v.backgroundUrl}]
    ELSE v

\* the set trap of the options Proxy for prop = 'backgroundUrl'
setBackgroundUrl(v, url) ==
    startLoad(unloadBackground([revokeReplaced(v) EXCEPT
                                    !.backgroundUrl = url,
                                    !.previous = v.backgroundSource]))

\* loadBackground from the fetch response to its end, for the load l
finishLoad(v, l, fetchOk, trackOk) ==
    LET v1 == [v EXCEPT !.loads = @ \ {l}]
    IN  IF ~fetchOk \/ l.revoked THEN v1
        ELSE IF ContentType(l.url) = "image"
        THEN [v1 EXCEPT !.backgroundSource =
                  [type |-> "image", url |-> l.url,
                   media |-> [w |-> 1, h |-> 2, px |-> <<60, 120>>]]]
        ELSE IF ContentType(l.url) = "video"
        THEN IF ~trackOk THEN v1
             ELSE [v1 EXCEPT !.tracks = @ \cup {l.id},
                             !.backgroundSource =
                                 [type |-> "video", url |-> l.url, media |-> "stream",
                                  track |-> l.id]]
        ELSE v1

\* `refcount--; if (!refcount)' of the stop handler
lastTrackStopped(v) == v.refcount - 1 = 0

\* outputTrack.stop of the output track t
stopTrack(v, t) ==
    LET v1 == [v EXCEPT !.refcount = @ - 1, !.outputs[t] = @ + 1]
    IN  IF lastTrackStopped(v)
        THEN [unloadBackground(v1) EXCEPT
                 !.loads = {[l EXCEPT !.orphaned = TRUE] : l \in v1.loads}]
        ELSE v1

\* processVideoTrack to its first await: refcount++
startTrack(v) == [v EXCEPT !.refcount = @ + 1]

\* processVideoTrack returns its output track
returnTrack(v) == [v EXCEPT !.outputs = Append(@, 0)]

InitBackground == Constructed /\ su = Idle /\ tr = Idle /\ vb = Loaded /\ bl = Idle /\ fx = Idle /\ wk = Idle /\ fp = Idle /\ rn = Idle /\ rec = Idle

\* options.backgroundUrl = url
SetBackgroundUrl ==
    /\ vb.pc = "module"
    /\ vb.started < MaxLoads
    /\ \E url \in Urls :
         \E v \in {setBackgroundUrl(vb, url)} :
            vb' = [v EXCEPT !.event = [NoEvent EXCEPT !.kind = "set", !.url = url]]
    /\ UNCHANGED <<rendererVars, su, tr, bl, fx, wk, fp, rn, rec>>

\* a loadBackground call in flight runs to its end
LoadCompletes ==
    /\ vb.pc = "module"
    /\ \E l \in vb.loads, fetchOk \in BOOLEAN, trackOk \in BOOLEAN :
         \E v \in {finishLoad(vb, l, fetchOk, trackOk)} :
            vb' = [v EXCEPT !.event = [NoEvent EXCEPT !.kind = "loaded", !.url = l.url,
                                                      !.orphaned = l.orphaned]]
    /\ UNCHANGED <<rendererVars, su, tr, bl, fx, wk, fp, rn, rec>>

\* processVideoTrack(track): refcount++ and loadBackgroundFromStorage, which
\* assigns a fresh object URL to options.backgroundUrl when a background was
\* saved; the output track is returned
ProcessVideoTrack ==
    /\ vb.pc = "module"
    /\ Len(vb.outputs) < MaxTracks
    /\ \E stored \in BOOLEAN :
         /\ stored => (vb.started < MaxLoads /\ vb.blobs < Len(BlobUrls))
         /\ \E v1 \in {startTrack(vb)} :
            \E v2 \in {IF stored
                       THEN setBackgroundUrl([v1 EXCEPT !.blobs = @ + 1],
                                             BlobUrls[v1.blobs + 1])
                       ELSE v1} :
            \E v \in {returnTrack(v2)} :
               vb' = [v EXCEPT !.event = [NoEvent EXCEPT !.kind = "start",
                                                         !.url = v.backgroundUrl]]
    /\ UNCHANGED <<rendererVars, su, tr, bl, fx, wk, fp, rn, rec>>

\* outputTrack.stop(), called by the application or by the 'ended' listener
\* of the source track, on a track that is live or was stopped before
StopTrack ==
    /\ vb.pc = "module"
    /\ \E t \in DOMAIN vb.outputs :
         /\ vb.outputs[t] < MaxStops
         /\ \E v \in {stopTrack(vb, t)} :
              vb' = [v EXCEPT !.event = [NoEvent EXCEPT !.kind = "stop",
                                                        !.url = v.backgroundUrl,
                                                        !.teardown = lastTrackStopped(vb)]]
    /\ UNCHANGED <<rendererVars, su, tr, bl, fx, wk, fp, rn, rec>>

\* the segmenter renders one frame of a live processed track with both masks
\* and the options object as it is at that moment
SegmenterFrame ==
    /\ vb.pc = "module"
    /\ Live(vb) # {}
    /\ running
    /\ nextTexture <= MaxTextures
    /\ \E i \in {input(Frame2, OptionsFor("vbg", TRUE, vb.backgroundSource),
                       ForegroundMasks(2), FALSE, Env(TRUE))} :
       \E c \in {resizeCanvas(canvas, i.videoFrame.displayWidth,
                              i.videoFrame.displayHeight)} :
          Effecting(i, c)
    /\ UNCHANGED <<su, tr, vb, bl, fx, wk, fp, rn, rec>>

NextBackground ==
    SetBackgroundUrl \/ LoadCompletes \/ ProcessVideoTrack \/ StopTrack \/ SegmenterFrame

SpecBackground == InitBackground /\ [][NextBackground]_vars

(***************************************************************************)
(* useVideoEffect: applyEffect, stopEffect, upload and config sync          *)
(***************************************************************************)
\* applyEffect calls a run makes
MaxCalls == 2

\* AVAILABLE_MODELS[key]
AVAILABLE_MODELS(key) ==
    IF key = "selfie_segmenter" THEN "/models/selfie_segmenter.tflite"
    ELSE "/models/selfie_multiclass_256x256.tflite"

\* the parts of defaultConfig applyEffect reads; blurAmount 20 in fixed point
defaultConfig ==
    [ blur |-> [model |-> "selfie_multiclass_256x256", blurAmount |-> 20 * ONE],
      virtualBg |-> [model |-> "selfie_segmenter"] ]

EffectTypes == {"none", "blur", "background"}

NoCompletion ==
    [effect |-> "<none>", modelPath |-> "", enabled |-> FALSE, bgBlur |-> 0,
     overlapped |-> FALSE]

\* the hook after its first render: effectType 'none', the bundled image as
\* customBgUrl, no processed track.  calls are the applyEffect calls in
\* flight, completed the options as the call that completed last left them.
Mounted ==
    [ pc |-> "hook", effectType |-> "none", customBgUrl |-> "A",
      processedTrackRef |-> NULL, calls |-> {}, applied |-> 0,
      lastCall |-> "none", completed |-> NoCompletion ]

\* stopEffect: the hook part and the stop() it calls on the processed track
stopEffectHook(f) == [f EXCEPT !.processedTrackRef = NULL]

stopEffectTrack(f, v) ==
    IF f.processedTrackRef # NULL THEN stopTrack(v, f.processedTrackRef) ELSE v

\* the assignments applyEffect makes to vbOptions before processVideoTrack
effectOptions(v, effect, customBgUrl) ==
    IF effect = "blur"
    THEN setBackgroundUrl([v EXCEPT !.modelPath = AVAILABLE_MODELS(defaultConfig.blur.model),
                                    !.enabled = TRUE,
                                    !.bgBlur = defaultConfig.blur.blurAmount], "")
    ELSE IF effect = "background"
    THEN setBackgroundUrl([v EXCEPT !.modelPath = AVAILABLE_MODELS(defaultConfig.virtualBg.model),
                                    !.enabled = TRUE,
                                    !.bgBlur = 0], customBgUrl)
    ELSE v

\* the effect that syncs config to vbOptions, for the fields modelled
syncConfig(v, effectType) ==
    IF effectType = "blur" THEN [v EXCEPT !.bgBlur = defaultConfig.blur.blurAmount]
    ELSE v

InitEffect == Constructed /\ su = Idle /\ tr = Idle /\ vb = Loaded /\ bl = Idle /\ fx = Mounted /\ wk = Idle /\ fp = Idle /\ rn = Idle /\ rec = Idle

\* applyEffect(effect) up to its first await: stopEffect, the options, and
\* for blur and background the synchronous start of processVideoTrack
ApplyEffectStart ==
    /\ fx.pc = "hook"
    /\ fx.applied < MaxCalls
    /\ \E effect \in EffectTypes :
         /\ (effect = "background") => vb.started < MaxLoads
         /\ \E v1 \in {stopEffectTrack(fx, vb)} :
            \E v2 \in {effectOptions(v1, effect, fx.customBgUrl)} :
            \E v3 \in {IF effect = "none" THEN v2 ELSE startTrack(v2)} :
               /\ vb' = [v3 EXCEPT !.event = [NoEvent EXCEPT !.kind = "apply"]]
               /\ fx' = [stopEffectHook(fx) EXCEPT
                            !.applied = @ + 1,
                            !.lastCall = "applyEffect",
                            !.calls = {[c EXCEPT !.overlapped = TRUE] : c \in fx.calls}
                                      \cup {[id |-> fx.applied + 1, effect |-> effect,
                                              pc |-> IF effect = "none" THEN "play"
                                                     ELSE "process",
                                              overlapped |-> fx.calls # {}]}]
    /\ UNCHANGED <<rendererVars, su, tr, bl, wk, fp, rn, rec>>

\* processVideoTrack resolves: the call keeps the output track in
\* processedTrackRef and awaits playVideo
ApplyEffectProcessed ==
    /\ fx.pc = "hook"
    /\ \E c \in fx.calls :
         /\ c.pc = "process"
         /\ vb' = [returnTrack(vb) EXCEPT !.event = [NoEvent EXCEPT !.kind = "start"]]
         /\ fx' = [fx EXCEPT !.processedTrackRef = Len(vb.outputs) + 1,
                              !.calls = (@ \ {c}) \cup {[c EXCEPT !.pc = "play"]}]
    /\ UNCHANGED <<rendererVars, su, tr, bl, wk, fp, rn, rec>>

\* playVideo resolves and applyEffect runs to its end
ApplyEffectCompletes ==
    /\ fx.pc = "hook"
    /\ \E c \in fx.calls :
         /\ c.pc = "play"
         /\ \E v \in {IF c.effect = "none" THEN [vb EXCEPT !.enabled = FALSE] ELSE vb} :
              /\ vb' = [v EXCEPT !.event = [NoEvent EXCEPT !.kind = "applied"]]
              /\ fx' = [fx EXCEPT !.effectType = c.effect,
                                   !.calls = @ \ {c},
                                   !.completed = [effect |-> c.effect,
                                                  modelPath |-> v.modelPath,
                                                  enabled |-> v.enabled,
                                                  bgBlur |-> v.bgBlur,
                                                  overlapped |-> c.overlapped]]
    /\ UNCHANGED <<rendererVars, su, tr, bl, wk, fp, rn, rec>>

\* stopEffect()
StopEffect ==
    /\ fx.pc = "hook"
    /\ \E v \in {stopEffectTrack(fx, vb)} :
         vb' = [v EXCEPT !.event = [NoEvent EXCEPT !.kind = "stop",
                                                   !.teardown = fx.processedTrackRef # NULL
                                                                /\ lastTrackStopped(vb)]]
    /\ fx' = [stopEffectHook(fx) EXCEPT !.lastCall = "stopEffect"]
    /\ UNCHANGED <<rendererVars, su, tr, bl, wk, fp, rn, rec>>

\* handleBgImageUpload with a file chosen
HandleBgImageUpload ==
    /\ fx.pc = "hook"
    /\ vb.blobs < Len(BlobUrls)
    /\ (fx.effectType = "background") => vb.started < MaxLoads
    /\ \E url \in {BlobUrls[vb.blobs + 1]} :
       \E v1 \in {[vb EXCEPT !.blobs = @ + 1]} :
       \E v \in {IF fx.effectType = "background" THEN setBackgroundUrl(v1, url) ELSE v1} :
          /\ vb' = [v EXCEPT !.event = [NoEvent EXCEPT !.kind = "upload", !.url = url]]
          /\ fx' = [fx EXCEPT !.customBgUrl = url]
    /\ UNCHANGED <<rendererVars, su, tr, bl, wk, fp, rn, rec>>

\* updateConfig: the config changes and the sync effect runs with the
\* effectType of the current render
SyncConfig ==
    /\ fx.pc = "hook"
    /\ \E v \in {syncConfig(vb, fx.effectType)} :
         vb' = [v EXCEPT !.event = [NoEvent EXCEPT !.kind = "config"]]
    /\ UNCHANGED <<rendererVars, su, tr, bl, fx, wk, fp, rn, rec>>

NextEffect ==
    \/ ApplyEffectStart \/ ApplyEffectProcessed \/ ApplyEffectCompletes
    \/ StopEffect \/ HandleBgImageUpload \/ SyncConfig \/ LoadCompletes

SpecEffect == InitEffect /\ [][NextEffect]_vars

(***************************************************************************)
(* Worker mode: the options posted to the worker and its onmessage         *)
(***************************************************************************)
\* assignments to options a run makes in worker mode
MaxSets == 3

\* `options.backgroundSource.media = undefined' after the copy was made: the
\* media is transferred, a source without its media has no media field here
transferMedia(v) ==
    IF "media" \in DOMAIN v.backgroundSource
    THEN [v EXCEPT !.backgroundSource =
              [k \in DOMAIN v.backgroundSource \ {"media"} |-> v.backgroundSource[k]]]
    ELSE v

\* getWorkerOptions().options: a copy of the options whose backgroundSource
\* is { type, media, url } when it has media and is deleted otherwise
getWorkerOptions(v) ==
    LET copy == [ backgroundUrl |-> v.backgroundUrl, modelPath |-> v.modelPath,
                  enabled |-> v.enabled, bgBlur |-> v.bgBlur,
                  backgroundSource |->
                      [k \in DOMAIN v.backgroundSource \cap {"type", "media", "url"} |->
                          v.backgroundSource[k]] ]
    IN  IF "media" \in DOMAIN v.backgroundSource THEN copy
        ELSE [k \in DOMAIN copy \ {"backgroundSource"} |-> copy[k]]

\* Object.assign(options, opts): the keys of opts are copied, others are kept
objectAssign(options, opts) ==
    [k \in DOMAIN options \cup DOMAIN opts |->
        IF k \in DOMAIN opts THEN opts[k] ELSE options[k]]

\* worker.postMessage({ name: 'options', options: workerOpts }, transferables)
postOptions(w, v) == [w EXCEPT !.queue = Append(@, getWorkerOptions(v))]

\* the worker after it received 'runSegmenter' with the options as declared
WorkerStarted ==
    [ pc |-> "worker", options |-> getWorkerOptions(Loaded), queue |-> <<>>,
      sets |-> 0, delivered |-> 0 ]

InitWorker == Constructed /\ su = Idle /\ tr = Idle /\ vb = Loaded /\ bl = Idle /\ fx = Idle /\ wk = WorkerStarted /\ fp = Idle /\ rn = Idle /\ rec = Idle

\* options.bgBlur = value with a worker: the set trap posts the options
WorkerSetOption ==
    /\ wk.pc = "worker"
    /\ wk.sets < MaxSets
    /\ \E value \in {0, 20 * ONE} :
       \E v \in {[vb EXCEPT !.bgBlur = value]} :
          /\ vb' = [transferMedia(v) EXCEPT !.event = [NoEvent EXCEPT !.kind = "option"]]
          /\ wk' = [postOptions(wk, v) EXCEPT !.sets = @ + 1]
    /\ UNCHANGED <<rendererVars, su, tr, bl, fx, fp, rn, rec>>

\* options.backgroundUrl = url with a worker: the options are posted when
\* loadBackground resolves, which for an empty url is at once
WorkerSetBackgroundUrl ==
    /\ wk.pc = "worker"
    /\ wk.sets < MaxSets
    /\ vb.started < MaxLoads
    /\ \E url \in Urls :
       \E v \in {setBackgroundUrl(vb, url)} :
          /\ vb' = [(IF url = "" THEN transferMedia(v) ELSE v) EXCEPT
                       !.event = [NoEvent EXCEPT !.kind = "set", !.url = url]]
          /\ wk' = [(IF url = "" THEN postOptions(wk, v) ELSE wk) EXCEPT !.sets = @ + 1]
    /\ UNCHANGED <<rendererVars, su, tr, bl, fx, fp, rn, rec>>

\* a loadBackground call in flight resolves and its `then' posts the options
WorkerLoadCompletes ==
    /\ wk.pc = "worker"
    /\ \E l \in vb.loads, fetchOk \in BOOLEAN, trackOk \in BOOLEAN :
       \E v \in {finishLoad(vb, l, fetchOk, trackOk)} :
          /\ vb' = [transferMedia(v) EXCEPT
                       !.event = [NoEvent EXCEPT !.kind = "loaded", !.url = l.url]]
          /\ wk' = postOptions(wk, v)
    /\ UNCHANGED <<rendererVars, su, tr, bl, fx, fp, rn, rec>>

\* self.onmessage for the oldest 'options' message posted
WorkerOnMessage ==
    /\ wk.pc = "worker"
    /\ wk.queue # <<>>
    /\ wk' = [wk EXCEPT !.options = objectAssign(@, Head(wk.queue)),
                        !.queue = Tail(@), !.delivered = @ + 1]
    /\ UNCHANGED <<rendererVars, su, tr, vb, bl, fx, fp, rn, rec>>

NextWorker ==
    WorkerSetOption \/ WorkerSetBackgroundUrl \/ WorkerLoadCompletes \/ WorkerOnMessage

SpecWorker == InitWorker /\ [][NextWorker]_vars

(***************************************************************************)
(* FallbackProcessor: a readable stream of frames drawn from a video       *)
(***************************************************************************)
\* milliseconds of performance.now() a run covers, in steps of ten
MaxTime == 6

\* frameDuration = 1000 / 30, in steps of ten milliseconds
frameDuration == 3

\* the processor once start() has resolved: the stream is readable with an
\* empty queue, timestamp is the time of start.  frames are the VideoFrames
\* enqueued, each with the value of running when it was enqueued.
Started ==
    [ pc |-> "readable", running |-> TRUE, now |-> 0, timestamp |-> 0,
      timer |-> 0, queue |-> 0, frames |-> <<>>, state |-> "readable",
      released |-> FALSE, event |-> "start" ]

\* close(): the video element is paused and its source dropped
closeVideo(f) == [f EXCEPT !.released = TRUE]

\* pull from `timestamp = performance.now()' on: the frame is drawn and
\* enqueued; controller.enqueue throws when the stream is not readable
enqueueFrame(f) ==
    IF f.state = "readable"
    THEN [f EXCEPT !.timestamp = f.now, !.queue = @ + 1,
                   !.frames = Append(@, [timestamp |-> f.now, running |-> f.running])]
    ELSE [f EXCEPT !.timestamp = f.now]

\* pull(controller) up to its await, or to its end when it does not wait
pull(f) ==
    IF ~f.running
    THEN [closeVideo(f) EXCEPT !.state = "closed", !.event = "closed"]
    ELSE IF f.now - f.timestamp < frameDuration
    THEN [f EXCEPT !.pc = "waiting", !.event = "wait",
                   !.timer = f.now + (frameDuration - (f.now - f.timestamp))]
    ELSE [enqueueFrame(f) EXCEPT !.event = "enqueue"]

\* cancel(): running = false; close()
cancel(f) == closeVideo([f EXCEPT !.running = FALSE])

InitFallback == Constructed /\ su = Idle /\ tr = Idle /\ vb = Idle /\ bl = Idle /\ fx = Idle /\ wk = Idle /\ fp = Started /\ rn = Idle /\ rec = Idle

\* the stream calls pull when it is readable, its queue is below the high
\* water mark of one frame and no pull is pending
FallbackPull ==
    /\ fp.pc = "readable"
    /\ fp.state = "readable"
    /\ fp.queue = 0
    /\ fp' = pull(fp)
    /\ UNCHANGED <<rendererVars, su, tr, vb, bl, fx, wk, rn, rec>>

\* the timer of a waiting pull fires and the pull runs to its end
FallbackTimeout ==
    /\ fp.pc = "waiting"
    /\ fp.now >= fp.timer
    /\ fp' = [enqueueFrame(fp) EXCEPT !.pc = "readable", !.event = "enqueue"]
    /\ UNCHANGED <<rendererVars, su, tr, vb, bl, fx, wk, rn, rec>>

\* the consumer reads the frame in the queue
FallbackRead ==
    /\ fp.pc \in {"readable", "waiting"}
    /\ fp.queue > 0
    /\ fp' = [fp EXCEPT !.queue = @ - 1, !.event = "read"]
    /\ UNCHANGED <<rendererVars, su, tr, vb, bl, fx, wk, rn, rec>>

\* track.stop()
FallbackTrackStop ==
    /\ fp.pc \in {"readable", "waiting"}
    /\ fp.running
    /\ fp' = [fp EXCEPT !.running = FALSE, !.event = "stop"]
    /\ UNCHANGED <<rendererVars, su, tr, vb, bl, fx, wk, rn, rec>>

\* the consumer cancels the stream: the queue is dropped and cancel() runs
FallbackCancel ==
    /\ fp.pc \in {"readable", "waiting"}
    /\ fp.state = "readable"
    /\ fp' = [cancel(fp) EXCEPT !.state = "cancelled", !.queue = 0, !.event = "cancel"]
    /\ UNCHANGED <<rendererVars, su, tr, vb, bl, fx, wk, rn, rec>>

\* ten milliseconds pass
FallbackTick ==
    /\ fp.pc \in {"readable", "waiting"}
    /\ fp.now < MaxTime
    /\ fp' = [fp EXCEPT !.now = @ + 1, !.event = "tick"]
    /\ UNCHANGED <<rendererVars, su, tr, vb, bl, fx, wk, rn, rec>>

NextFallback ==
    \/ FallbackPull \/ FallbackTimeout \/ FallbackRead
    \/ FallbackTrackStop \/ FallbackCancel \/ FallbackTick

SpecFallback == InitFallback /\ [][NextFallback]_vars

(***************************************************************************)
(* RNNoiseProcessor: the audio worklet that buffers samples into frames    *)
(***************************************************************************)
RNNOISE_FRAME_SIZE == 480

\* `* 32768' and `/ 32768': a float x is held here as the integer x * 32768
\* and a value of the int16 range as itself times 32768
INT16_RANGE == 32768

\* samples a run feeds to an enabled processor
MaxSamples == 1500

\* inputChannel.length of the process() calls of a run, repeated in turn
BlockLengths == {<<1>>, <<128>>, <<RNNOISE_FRAME_SIZE>>, <<128, 1, 500>>, <<100, 128>>}

\* the n-th sample of the input signal k
sampleOf(k, n) == IF k = 1 THEN n ELSE 3 - 2 * n

\* the input block of a process() call: len samples after the first `from'
inputBlock(k, from, len) == [i \in 1..len |-> sampleOf(k, from + i)]

\* _rnnoise_process_frame: the frame denoised, as a function of the frame and
\* of the number of frames the state has seen
rnnoise_process_frame(seen, frame) ==
    [i \in 1..RNNOISE_FRAME_SIZE |-> frame[i] + INT16_RANGE * (seen + 1)]

\* the processor as constructed: empty buffers, enabled, RNNoise not loaded.
\* processed are the samples RNNoise returned, emitted the samples written to
\* the output while processing, input and output the blocks of the last call,
\* i the sample the loop of process is at, calls the place in lengths of the
\* next call that processes.
RNNoiseProcessor ==
    [ pc |-> "worklet", ready |-> FALSE, enabled |-> TRUE,
      inputBuffer |-> [i \in 1..RNNOISE_FRAME_SIZE |-> 0],
      outputBuffer |-> [i \in 1..RNNOISE_FRAME_SIZE |-> 0],
      inputBufferFill |-> 0, outputBufferRead |-> 0, outputBufferFill |-> 0,
      frames |-> 0, processed |-> <<>>, emitted |-> <<>>,
      input |-> <<>>, output |-> <<>>, i |-> 0, passthrough |-> FALSE,
      signal |-> 1, lengths |-> <<1>>, calls |-> 0 ]

\* processRNNoiseFrame that leaves outputBufferRead where it is
processRNNoiseFrameKeepsRead(r) ==
    LET outputHeap == rnnoise_process_frame(r.frames, r.inputBuffer)
    IN  [r EXCEPT !.outputBuffer = outputHeap,
                  !.outputBufferFill = RNNOISE_FRAME_SIZE,
                  !.frames = @ + 1,
                  !.processed = @ \o outputHeap]

processRNNoiseFrame(r) ==
    LET outputHeap == rnnoise_process_frame(r.frames, r.inputBuffer)
    IN  [r EXCEPT !.outputBuffer = outputHeap,
                  !.outputBufferRead = 0,
                  !.outputBufferFill = RNNOISE_FRAME_SIZE,
                  !.frames = @ + 1,
                  !.processed = @ \o outputHeap]

\* the body of the loop of process, up to the sample that is output
bufferSample(r, x) ==
    LET r1 == [r EXCEPT !.inputBuffer[r.inputBufferFill + 1] = x * INT16_RANGE,
                        !.inputBufferFill = @ + 1]
    IN  IF r1.inputBufferFill >= RNNOISE_FRAME_SIZE
        THEN [processRNNoiseFrame(r1) EXCEPT !.inputBufferFill = 0]
        ELSE r1

\* the body of the loop of process: the sample written to outputChannel[i]
outputSample(r) ==
    IF r.outputBufferRead < r.outputBufferFill
    THEN [r EXCEPT !.output = Append(@, r.outputBuffer[r.outputBufferRead + 1]
                                           \div INT16_RANGE),
                   !.outputBufferRead = @ + 1]
    ELSE [r EXCEPT !.output = Append(@, 0)]

\* process(inputs, outputs) up to its loop, or to its end when it passes through
process(r, inputChannel) ==
    IF ~r.ready \/ ~r.enabled
    THEN [r EXCEPT !.input = inputChannel, !.output = inputChannel,
                   !.passthrough = TRUE]
    ELSE [r EXCEPT !.input = inputChannel, !.output = <<>>, !.i = 1,
                   !.passthrough = FALSE, !.calls = (@ + 1) % Len(r.lengths),
                   !.pc = "process"]

InitRNNoise == Constructed /\ su = Idle /\ tr = Idle /\ vb = Idle /\ bl = Idle /\ fx = Idle /\ wk = Idle /\ fp = Idle /\ rn \in {[RNNoiseProcessor EXCEPT !.signal = k, !.lengths = l] : k \in {1, 2}, l \in BlockLengths} /\ rec = Idle

\* the audio thread calls process with the next block of the signal
Process ==
    /\ rn.pc = "worklet"
    /\ \E len \in {rn.lengths[rn.calls + 1]} :
         /\ Len(rn.emitted) + len <= MaxSamples
         /\ rn' = process(rn, inputBlock(rn.signal, Len(rn.emitted), len))
    /\ UNCHANGED <<rendererVars, su, tr, vb, bl, fx, wk, fp, rec>>

\* one iteration of the loop of process; the call returns after the last
ProcessSample ==
    /\ rn.pc = "process"
    /\ \E r1 \in {bufferSample(rn, rn.input[rn.i])} :
       \E r \in {outputSample(r1)} :
          rn' = [r EXCEPT !.i = @ + 1,
                          !.emitted = Append(@, r.output[Len(r.output)]),
                          !.pc = IF rn.i = Len(rn.input) THEN "worklet" ELSE "process"]
    /\ UNCHANGED <<rendererVars, su, tr, vb, bl, fx, wk, fp, rec>>

\* port.onmessage between two calls of process: 'init' loads RNNoise,
\* 'enable' switches the processor
PortMessage ==
    /\ rn.pc = "worklet"
    /\ \/ ~rn.ready /\ rn' = [rn EXCEPT !.ready = TRUE]
       \/ \E enabled \in BOOLEAN :
            /\ enabled # rn.enabled
            /\ rn' = [rn EXCEPT !.enabled = enabled]
    /\ UNCHANGED <<rendererVars, su, tr, vb, bl, fx, wk, fp, rec>>

NextRNNoise == Process \/ ProcessSample \/ PortMessage

SpecRNNoise == InitRNNoise /\ [][NextRNNoise]_vars

(***************************************************************************)
(* useRecording: startRecording, stopRecording and the recorder's events   *)
(***************************************************************************)
\* MediaRecorders a run creates
MaxRecorders == 2

\* chunks one MediaRecorder delivers
MaxChunks == 2

\* the hook after its first render.  recorders[m] is the MediaRecorder m:
\* its state, the events it has still to fire after it stopped, the number
\* of chunks it delivered and those of them that were not empty.
RecordingHook ==
    [ pc |-> "hook", mediaRecorderRef |-> NULL, chunksRef |-> <<>>,
      isRecording |-> FALSE, recordedBlob |-> NULL, recorders |-> <<>>,
      event |-> [kind |-> "render", recorder |-> NULL] ]

\* mediaRecorder.ondataavailable
ondataavailable(h, m, size) ==
    LET data == [recorder |-> m, chunk |-> h.recorders[m].chunks + 1, size |-> size]
        h1 == [h EXCEPT !.recorders[m].chunks = @ + 1,
                        !.recorders[m].delivered =
                            IF size > 0 THEN Append(@, data) ELSE @]
    IN  IF size > 0 THEN [h1 EXCEPT !.chunksRef = Append(@, data)] ELSE h1

\* mediaRecorder.onstop
onstop(h, m) ==
    [h EXCEPT !.recordedBlob = h.chunksRef, !.isRecording = FALSE,
              !.recorders[m].pending = "none"]

\* MediaRecorder.stop(), also run by the recorder when its tracks end: the
\* recorder is inactive at once and then fires dataavailable and stop
stopRecorder(h, m) ==
    [h EXCEPT !.recorders[m].state = "inactive", !.recorders[m].pending = "data"]

startRecording(h) ==
    LET m == Len(h.recorders) + 1
    IN  [h EXCEPT !.chunksRef = <<>>,
                  !.recorders = Append(@, [state |-> "recording", pending |-> "none",
                                           chunks |-> 0, delivered |-> <<>>]),
                  !.mediaRecorderRef = m,
                  !.isRecording = TRUE]

stopRecording(h) ==
    IF h.mediaRecorderRef # NULL /\ h.recorders[h.mediaRecorderRef].state # "inactive"
    THEN stopRecorder(h, h.mediaRecorderRef)
    ELSE h

InitRecording == Constructed /\ su = Idle /\ tr = Idle /\ vb = Idle /\ bl = Idle /\ fx = Idle /\ wk = Idle /\ fp = Idle /\ rn = Idle /\ rec = RecordingHook

StartRecording ==
    /\ rec.pc = "hook"
    /\ Len(rec.recorders) < MaxRecorders
    /\ rec' = [startRecording(rec) EXCEPT
                  !.event = [kind |-> "startRecording",
                             recorder |-> Len(rec.recorders) + 1]]
    /\ UNCHANGED <<rendererVars, su, tr, vb, bl, fx, wk, fp, rn>>

StopRecording ==
    /\ rec.pc = "hook"
    /\ rec' = [stopRecording(rec) EXCEPT
                  !.event = [kind |-> "stopRecording", recorder |-> rec.mediaRecorderRef]]
    /\ UNCHANGED <<rendererVars, su, tr, vb, bl, fx, wk, fp, rn>>

\* the tracks of a recorder's stream end and the recorder stops
TracksEnded ==
    /\ rec.pc = "hook"
    /\ \E m \in DOMAIN rec.recorders :
         /\ rec.recorders[m].state = "recording"
         /\ rec' = [stopRecorder(rec, m) EXCEPT
                       !.event = [kind |-> "ended", recorder |-> m]]
    /\ UNCHANGED <<rendererVars, su, tr, vb, bl, fx, wk, fp, rn>>

\* a recorder fires dataavailable: every second while it records, and once
\* after it stopped
DataAvailable ==
    /\ rec.pc = "hook"
    /\ \E m \in DOMAIN rec.recorders, size \in {0, 1} :
         /\ \/ rec.recorders[m].state = "recording" /\ rec.recorders[m].chunks + 1 < MaxChunks
            \/ rec.recorders[m].pending = "data"
         /\ \E h \in {ondataavailable(rec, m, size)} :
              rec' = [h EXCEPT !.recorders[m].pending =
                                   IF @ = "data" THEN "stop" ELSE @,
                               !.event = [kind |-> "dataavailable", recorder |-> m]]
    /\ UNCHANGED <<rendererVars, su, tr, vb, bl, fx, wk, fp, rn>>

\* a stopped recorder fires stop
OnStop ==
    /\ rec.pc = "hook"
    /\ \E m \in DOMAIN rec.recorders :
         /\ rec.recorders[m].pending = "stop"
         /\ rec' = [onstop(rec, m) EXCEPT !.event = [kind |-> "stop", recorder |-> m]]
    /\ UNCHANGED <<rendererVars, su, tr, vb, bl, fx, wk, fp, rn>>

NextRecording ==
    StartRecording \/ StopRecording \/ TracksEnded \/ DataAvailable \/ OnStop

SpecRecording == InitRecording /\ [][NextRecording]_vars

(***************************************************************************)
(* One evaluation of the blend pass on drawn inputs                        *)
(***************************************************************************)
BLBlur == {0 - 200000, 0, 1, 200000}

BLRadius == {0 - 300000, 0, 1, 300000}

BLSpatialBlur == {Undefined, 20000}

BLSpatialVbg == {Undefined, 50000}

\* width and height of canvases and backgrounds: 4:3, 16:9, 1:1, 3:4, 1:2, 2:1
BLDimensions == {<<4, 3>>, <<16, 9>>, <<1, 1>>, <<3, 4>>, <<1, 2>>, <<2, 1>>}

BLCoordinates == {0, 2500, 5000, 7500, ONE}

BLInputs ==
    { [ pc |-> "in", kind |-> "law", bgBlur |-> b, bgBlurRadius |-> r,
        blendSpatialBlurBlur |-> sb, blendSpatialBlurVbg |-> sv ] :
        b \in BLBlur, r \in BLRadius, sb \in BLSpatialBlur, sv \in BLSpatialVbg }
  \cup
    { [ pc |-> "in", kind |-> "aspect", canvas |-> [x |-> c[1], y |-> c[2]],
        bg |-> [x |-> g[1], y |-> g[2]], x |-> x, y |-> y ] :
        c \in BLDimensions, g \in BLDimensions, x \in BLCoordinates,
        y \in BLCoordinates }

InitBlend == Constructed /\ su = Idle /\ tr = Idle /\ vb = Idle /\ bl \in BLInputs /\ fx = Idle /\ wk = Idle /\ fp = Idle /\ rn = Idle /\ rec = Idle

\* the textures bound for the blend pass of a 1x2 frame over the default colour
BLTextures ==
    [ tex |-> [h \in {1, 2, 3} |->
                 IF h = 1 THEN frameImage(Frame2)
                 ELSE IF h = 2 THEN image("state", "linear", 1, 2, <<255, 0>>)
                 ELSE image("bg", "nearest", 1, 1, <<DEFAULT_BG_COLOR>>)],
      next |-> 4 ]

\* render sets the uniforms of the blend program from the options and the
\* shader runs on one fragment
ApplyBlendLaw ==
    /\ bl.pc = "in" /\ bl.kind = "law"
    /\ \E options \in {[OptionsFor("vbg", TRUE, NoSource) EXCEPT
                           !.bgBlur = bl.bgBlur, !.bgBlurRadius = bl.bgBlurRadius,
                           !.blendSpatialBlurBlur = bl.blendSpatialBlurBlur,
                           !.blendSpatialBlurVbg = bl.blendSpatialBlurVbg]} :
       \E u \in {blendUniforms(BLTextures, options,
                                [type |-> "color", texture |-> 3,
                                 color |-> DEFAULT_BG_COLOR], 1, 2, 1, 2)} :
       \E frag \in {blendMain(u, vTexCoord(0, 2), Env(TRUE))} :
          bl' = [ pc |-> "done", kind |-> "law", bgBlur |-> bl.bgBlur,
                  bgBlurRadius |-> bl.bgBlurRadius,
                  blendSpatialBlurBlur |-> bl.blendSpatialBlurBlur,
                  blendSpatialBlurVbg |-> bl.blendSpatialBlurVbg,
                  law |-> frag.law, u_blendSpatialBlur |-> u.blendSpatialBlur ]
    /\ UNCHANGED <<rendererVars, su, tr, vb, fx, wk, fp, rn, rec>>

\* the virtual-background law maps one canvas coordinate to the background
ApplyAspectFill ==
    /\ bl.pc = "in" /\ bl.kind = "aspect"
    /\ \E a \in {aspectFill(bl.canvas, bl.bg)} :
          bl' = [ pc |-> "done", kind |-> "aspect", canvas |-> bl.canvas,
                  bg |-> bl.bg, x |-> bl.x, y |-> bl.y,
                  scaleX |-> a.scaleX, scaleY |-> a.scaleY,
                  bgX |-> bgTexCoordX(bl.x, bl.canvas, bl.bg),
                  bgY |-> bgTexCoord(bl.y, bl.canvas, bl.bg) ]
    /\ UNCHANGED <<rendererVars, su, tr, vb, fx, wk, fp, rn, rec>>

NextBlend == ApplyBlendLaw \/ ApplyAspectFill

SpecBlend == InitBlend /\ [][NextBlend]_vars

(***************************************************************************)
(* Properties of the renderer                                              *)
(***************************************************************************)
\* the last step was a render call on a running renderer
Rendered(call) == call.kind \in {"passthrough", "effecting", "throw"}

BothSupplied(call) == call.categorySupplied /\ call.confidenceSupplied

\* C1: in an effecting render call the read and the write index are different
\* members of {0,1}; the state-update pass samples storedStateTextures[read] and
\* renders into storedStateTextures[write], the blend pass samples
\* storedStateTextures[write], and the two are different textures.
PingPongNeverAliased ==
    last.kind = "effecting" =>
        /\ last.readStateIndex \in {0, 1}
        /\ last.writeStateIndex \in {0, 1}
        /\ last.readStateIndex # last.writeStateIndex
        /\ last.prevStateTexture = at(storedStateTextures, last.readStateIndex)
        /\ last.newStateTexture = at(storedStateTextures, last.writeStateIndex)
        /\ last.currentStateTexture = at(storedStateTextures, last.writeStateIndex)
        /\ last.prevStateTexture # last.newStateTexture

\* an effecting call that read buffer 1 and wrote buffer 0
SecondEffectingCall ==
    last.kind = "effecting" /\ last.readStateIndex = 1 /\ last.writeStateIndex = 0

\* C2: an effecting render call swaps currentStateIndex once, after the two
\* passes; a passthrough render, a render after close and a render that throws
\* leave it alone; an effecting call reads the buffer the effecting call before
\* it wrote, whatever passthrough calls lie between.
SwapOncePerEffectingCall ==
    [][ /\ last'.kind = "effecting" =>
             /\ currentStateIndex' = 1 - currentStateIndex
             /\ last'.ops = <<"stateUpdate", "blend", "swap">>
             /\ hist.written # NULL => last'.prevStateTexture = hist.written
        /\ last'.kind \in {"passthrough", "noop", "throw"} =>
             currentStateIndex' = currentStateIndex ]_vars

\* an effecting call read what an earlier one wrote and swapped back to 0
ReadsWhatWasWritten ==
    /\ last.kind = "effecting"
    /\ last.readStateIndex = 1
    /\ currentStateIndex = 0
    /\ hist.written = last.newStateTexture

\* C3: once closed, nothing changes the renderer any more (render in either
\* mode, close), and the closed renderer holds no state textures, no
\* background info and no background identifier.
ClosedIsAbsorbing ==
    [][ /\ ~running =>
             UNCHANGED <<running, currentStateIndex, storedStateTextures,
                         backgroundRenderInfo, activeBackgroundSourceIdentifier,
                         canvas, glTextures, nextTexture>>
        /\ ~running' =>
             /\ storedStateTextures' = <<>>
             /\ backgroundRenderInfo' = NoInfo
             /\ activeBackgroundSourceIdentifier' = NoId ]_vars

\* a render call with both masks arrived after close, which had a background
\* texture to release
RenderAfterClose ==
    /\ ~running
    /\ last.kind = "noop"
    /\ BothSupplied(last)
    /\ hist.created = 1

\* C4: a render call with a mask texture missing puts the frame's pixels on the
\* canvas unchanged, with u_enabled = 0 and without reading mask or background.
PassthroughIsIdentity ==
    (Rendered(last) /\ ~BothSupplied(last)) =>
        /\ last.out = last.frame
        /\ canvas.px = last.frame
        /\ last.uEnabled = 0
        /\ ~last.readsMask
        /\ ~last.readsBackground

\* a two-row frame with different rows went through with one mask supplied
PassthroughOfTwoRows ==
    /\ last.kind = "passthrough"
    /\ last.categorySupplied
    /\ last.frame = <<40, 200>>
    /\ canvas.px = <<40, 200>>

\* C5: a render call with a mask texture missing leaves currentStateIndex, both
\* state textures and their contents, backgroundRenderInfo and
\* activeBackgroundSourceIdentifier as they were, and creates or deletes no
\* background texture.
PassthroughKeepsPipelineState ==
    [][ (Rendered(last') /\ ~BothSupplied(last')) =>
            /\ currentStateIndex' = currentStateIndex
            /\ storedStateTextures' = storedStateTextures
            /\ \A i \in DOMAIN storedStateTextures :
                  lookup([tex |-> glTextures'], storedStateTextures[i])
                    = lookup([tex |-> glTextures], storedStateTextures[i])
            /\ backgroundRenderInfo' = backgroundRenderInfo
            /\ activeBackgroundSourceIdentifier' = activeBackgroundSourceIdentifier
            /\ last'.bgCreated = 0
            /\ last'.bgDeleted = 0 ]_vars

\* a passthrough call with only the category mask, after an effecting call
\* left a mask and a background behind
PassthroughAfterEffecting ==
    /\ last.kind = "passthrough"
    /\ last.categorySupplied
    /\ currentStateIndex = 1
    /\ hist.written # NULL
    /\ backgroundRenderInfo # NoInfo

\* C6: with options.enabled false a render call puts the frame on the canvas
\* unchanged and reads neither mask nor background, also with both masks
\* supplied.
DisabledIsVerbatim ==
    (Rendered(last) /\ ~last.enabledOption) =>
        /\ last.out = last.frame
        /\ ~last.readsMask
        /\ ~last.readsBackground

\* C10: an effecting call that requests the background identity the effecting
\* call before it requested creates and deletes no texture and leaves
\* backgroundRenderInfo and activeBackgroundSourceIdentifier alone; the two
\* calls create one background texture at most.
SameBackgroundIsCacheHit ==
    [][ (last'.kind = "effecting" /\ hist.request = last'.request) =>
            /\ last'.bgCreated = 0
            /\ last'.bgDeleted = 0
            /\ hist.created + last'.bgCreated <= 1
            /\ backgroundRenderInfo' = backgroundRenderInfo
            /\ activeBackgroundSourceIdentifier' = activeBackgroundSourceIdentifier ]_vars

(***************************************************************************)
(* Properties of the state-update shader                                   *)
(***************************************************************************)
InUnitRange(x) == 0 <= x /\ x <= ONE

\* C7 as stated: for every configuration, smoothing outside [0,1] and
\* smoothstepMin >= smoothstepMax included, the shader's newCategoryValue is a
\* number in [0,1].
NewValueInRangeForAllConfigurations ==
    su.pc = "done" =>
        /\ ~su.result.nan
        /\ InUnitRange(su.result.newCategoryValue)

\* C7 as amended: with smoothing in [0,1] and smoothstepMin < smoothstepMax the
\* shader's newCategoryValue is in [0,1]; for every configuration the value
\* the 8-bit mask buffer stores is in [0,1].
NewValueInRangeForSaneConfigurations ==
    su.pc = "done" =>
        /\ InUnitRange(FromUnorm8(su.byte))
        /\ (InUnitRange(su.smoothing) /\ su.smoothstepMin < su.smoothstepMax) =>
              /\ ~su.result.nan
              /\ InUnitRange(su.result.newCategoryValue)

\* smoothing 2.0 drives the blend above 1 and the buffer clamps it
OvershootIsClamped ==
    /\ su.pc = "done"
    /\ su.smoothing = 20000
    /\ su.result.newCategoryValue > ONE
    /\ su.byte = 255

\* C8 as stated: category 1 and confidence 1 for 30 frames with smoothing 0.7
\* and smoothstep 0.25/0.85 from the all-background mask: the mask never
\* decreases and is above 0.95 after the 30 frames.
ForegroundRunConverges ==
    (tr.pc = "run" /\ tr.smoothing = 7000 /\ tr.smoothstepMin = 2500
                   /\ tr.smoothstepMax = 8500) =>
        /\ tr.F >= tr.Fprev
        /\ tr.n >= 30 => FromUnorm8(tr.F) > 9500

\* C8 as amended: the same with category 1 and raw confidence 0, which the
\* shader inverts to 1 for a foreground pixel.
InvertedForegroundRunConverges ==
    (tr.pc = "run" /\ tr.smoothing = 7000 /\ tr.smoothstepMin = 2500
                   /\ tr.smoothstepMax = 8500) =>
        /\ tr.G >= tr.Gprev
        /\ tr.n >= 30 => FromUnorm8(tr.G) > 9500

\* after 30 frames the raw-confidence-0 run is at 1 and the raw-confidence-1
\* run still at 0
ThirtyFramesFed ==
    /\ tr.pc = "run"
    /\ tr.smoothing = 7000 /\ tr.smoothstepMin = 2500 /\ tr.smoothstepMax = 8500
    /\ tr.n = 30
    /\ tr.G = 255
    /\ tr.F = 0

\* the stickiness multiplier is in [0.25, 0.7] and is applied exactly when
\* category < 0.5 and the blurred previous mask > 0.3
StickinessAsDocumented(res) ==
    /\ res.applies <=> (res.categoryValue < 5000 /\ res.prevCategoryValue > 3000)
    /\ res.applies => /\ StickStrong <= res.factor /\ res.factor <= StickWeak
                      /\ res.alpha = Mul(res.base, res.factor)
    /\ ~res.applies => res.alpha = res.base

\* C9 as stated: at every step after the transition the mask of the
\* person-to-background run changes by no more than the mask of the
\* background-to-person run, and the stickiness is as documented.
SlowDirectionChangesLessEveryStep ==
    (tr.pc = "run" /\ tr.n > tr.k) =>
        /\ Abs(tr.A - tr.Aprev) <= Abs(tr.B - tr.Bprev)
        /\ StickinessAsDocumented(tr.resA)
        /\ StickinessAsDocumented(tr.resB)

\* C9 as amended: at every step after the transition the two runs have the
\* same base alpha and the person-to-background run blends with an alpha no
\* larger than the background-to-person run; at the first step after the
\* transition its mask changes by no more; the stickiness is as documented.
SlowDirectionBlendsLessEveryStep ==
    (tr.pc = "run" /\ tr.n > tr.k) =>
        /\ tr.resA.base = tr.resB.base
        /\ tr.resB.alpha = tr.resB.base
        /\ tr.resA.alpha <= tr.resB.alpha
        /\ tr.n = tr.k + 1 => Abs(tr.A - tr.Aprev) <= Abs(tr.B - tr.Bprev)
        /\ StickinessAsDocumented(tr.resA)
        /\ StickinessAsDocumented(tr.resB)

\* a later step where stickiness lowered alpha and yet the person-to-background
\* mask moved further than the background-to-person mask
SlowRunStillMoving ==
    /\ tr.pc = "run"
    /\ tr.n > tr.k + 1
    /\ tr.resA.applies
    /\ tr.resA.alpha < tr.resB.alpha
    /\ Abs(tr.A - tr.Aprev) > Abs(tr.B - tr.Bprev)

(***************************************************************************)
(* Properties of the background cache                                      *)
(***************************************************************************)
\* the last step was a render call that ran updateBackgroundIfNeeded
UpdatedBackground(call) == call.kind \in {"effecting", "throw"}

\* the live background textures
BackgroundTextures(tex) == {h \in DOMAIN tex : tex[h].kind = "bg"}

\* C11: after updateBackgroundIfNeeded has finished or failed, for any request,
\* backgroundRenderInfo is non-null and its texture is live.
BackgroundAlwaysValid ==
    UpdatedBackground(last) =>
        /\ backgroundRenderInfo # NoInfo
        /\ backgroundRenderInfo.texture \in DOMAIN glTextures

\* C12: in a background swap the previous texture is deleted only after the
\* new one was created.
ReleaseOnlyAfterCreate ==
    UpdatedBackground(last) =>
        \A i \in DOMAIN last.bgOps :
            last.bgOps[i] = "delete" => \E j \in 1..(i - 1) : last.bgOps[j] = "create"

\* C13: at most one background texture is live, it is the one
\* backgroundRenderInfo names, none is live once closed, and every
\* deleteTexture of a render or close call takes one live background texture
\* away (every createTexture adds one).
AtMostOneBackgroundTexture ==
    [][ /\ Cardinality(BackgroundTextures(glTextures')) <= 1
        /\ BackgroundTextures(glTextures') =
              (IF backgroundRenderInfo' = NoInfo THEN {}
               ELSE {backgroundRenderInfo'.texture})
        /\ ~running' => BackgroundTextures(glTextures') = {}
        /\ last'.kind \in {"effecting", "throw", "close"} =>
              /\ Cardinality(BackgroundTextures(glTextures)
                               \ BackgroundTextures(glTextures')) = last'.bgDeleted
              /\ Cardinality(BackgroundTextures(glTextures')
                               \ BackgroundTextures(glTextures)) = last'.bgCreated ]_vars

\* a render call swapped the background: one texture deleted, one created
BackgroundSwapped ==
    /\ last.kind = "effecting"
    /\ last.bgDeleted = 1
    /\ last.bgCreated = 1
    /\ Cardinality(BackgroundTextures(glTextures)) = 1

(***************************************************************************)
(* Properties of the mask history                                          *)
(***************************************************************************)
AllBackground(tex) == \A k \in DOMAIN tex.px : tex.px[k] = 0

\* C14: an effecting call whose frame size differs from the size of the
\* previous effecting frame leaves both state textures at the new size and
\* its state-update pass reads an all-background previous mask.
ResolutionChangeResetsHistory ==
    [][ ( /\ last'.kind = "effecting"
          /\ hist.written # NULL
          /\ lookup([tex |-> glTextures], hist.written).h # Len(last'.frame) ) =>
            /\ \A i \in DOMAIN storedStateTextures :
                  lookup([tex |-> glTextures'], storedStateTextures[i]).h
                    = Len(last'.frame)
            /\ AllBackground(last'.prevState) ]_vars

\* C15: until the first effecting call both state textures hold red 0, and
\* the state-update pass of the first effecting call samples previous state 0
\* at every pixel.
FirstFrameReadsBackground ==
    [][ /\ (running /\ hist.written = NULL) =>
               \A i \in DOMAIN storedStateTextures :
                   AllBackground(lookup([tex |-> glTextures], storedStateTextures[i]))
        /\ (last'.kind = "effecting" /\ hist.written = NULL) =>
               /\ AllBackground(last'.prevState)
               /\ \A j \in 1..Len(last'.frame) :
                     sampleBlurred(last'.prevState,
                                   ONE - vTexCoord(j - 1, Len(last'.frame)), 60000,
                                   [x |-> 1, y |-> Len(last'.frame)]) = 0 ]_vars

\* the first call on a new renderer was an effecting call on a two-row frame:
\* it created textures 3 and 4 and read the 1x1 initial texture
FirstEffectingCall ==
    /\ last.kind = "effecting"
    /\ last.readStateIndex = 0
    /\ last.bgCreated = 1
    /\ nextTexture = 5
    /\ Len(last.frame) = 2
    /\ last.prevState.h = 1
    /\ hist.written = last.newStateTexture

(***************************************************************************)
(* Properties of error handling                                            *)
(***************************************************************************)
\* C19: a render call on a zero-area frame is a passthrough call: no
\* state-update pass, no state texture re-specified, currentStateIndex kept.
ZeroAreaFrameIsPassthrough ==
    [][ (Rendered(last') /\ Len(last'.frame) = 0) =>
            /\ last'.kind = "passthrough"
            /\ \A k \in DOMAIN last'.ops : last'.ops[k] # "stateUpdate"
            /\ currentStateIndex' = currentStateIndex
            /\ \A i \in DOMAIN storedStateTextures :
                  lookup([tex |-> glTextures'], storedStateTextures[i])
                    = lookup([tex |-> glTextures], storedStateTextures[i]) ]_vars

\* C20: once a render call has thrown on a failed texture creation, the next
\* render call is refused: it does no GPU work and changes no field.
FailedRendererRefusesUse ==
    [][ (last.kind = "throw" /\ last'.kind \in {"passthrough", "effecting", "throw", "noop"}) =>
            /\ last'.kind = "noop"
            /\ UNCHANGED <<running, currentStateIndex, storedStateTextures,
                           backgroundRenderInfo, activeBackgroundSourceIdentifier,
                           canvas, glTextures, nextTexture>> ]_vars

\* the live textures that hold an uploaded video frame
FrameTextures(tex) == {h \in DOMAIN tex : tex[h].kind = "frame"}

\* C21: the texture holding the uploaded video frame is created and deleted
\* within the same render call: after every render call that returns
\* (passthrough or effecting) it created as many frame textures as it
\* deleted, and over any sequence of calls no frame texture is live between
\* calls.
FrameTextureWithinCall ==
    /\ FrameTextures(glTextures) = {}
    /\ last.kind \in {"passthrough", "effecting"} =>
          /\ last.frameCreated = 1
          /\ last.frameDeleted = last.frameCreated

\* a passthrough and an effecting call have both uploaded a frame
FramesUploadedInBothBranches ==
    /\ last.kind = "passthrough"
    /\ last.frameCreated = 1
    /\ hist.written # NULL
    /\ nextTexture > 5

\* C22: the two blending laws are mutually exclusive and selected the same
\* way on both sides: for all bgBlur and bgBlurRadius the shader runs the
\* background-blur law iff both are positive and the virtual-background law
\* otherwise, and u_blendSpatialBlur is blendSpatialBlurBlur (8.0 when
\* absent) exactly when the blur law runs and blendSpatialBlurVbg (14.0 when
\* absent) exactly when the virtual-background law runs.
BlendLawsSelectedConsistently ==
    (bl.pc = "done" /\ bl.kind = "law") =>
        /\ bl.law \in {"blur", "vbg"}
        /\ bl.law = "blur" <=> (bl.bgBlur > 0 /\ bl.bgBlurRadius > 0)
        /\ bl.law = "blur" =>
              bl.u_blendSpatialBlur =
                  (IF bl.blendSpatialBlurBlur = Undefined THEN 80000
                   ELSE bl.blendSpatialBlurBlur)
        /\ bl.law = "vbg" =>
              bl.u_blendSpatialBlur =
                  (IF bl.blendSpatialBlurVbg = Undefined THEN 140000
                   ELSE bl.blendSpatialBlurVbg)

\* the virtual-background law ran although a blur intensity was set, because
\* the radius was not positive, with both mask radii configured
VbgLawWithBlurIntensity ==
    /\ bl.pc = "done" /\ bl.kind = "law"
    /\ bl.law = "vbg" /\ bl.bgBlur > 0 /\ bl.bgBlurRadius <= 0
    /\ bl.blendSpatialBlurBlur # Undefined /\ bl.blendSpatialBlurVbg # Undefined
    /\ bl.u_blendSpatialBlur = bl.blendSpatialBlurVbg

\* C23: aspect-fill mapping.  For positive canvas and background dimensions
\* the background coordinate of every canvas coordinate in [0,1]x[0,1] lies
\* in [0,1]x[0,1], the canvas centre maps to the background centre, and both
\* axes are scaled by the same factor in pixel space (up to the rounding of
\* the arithmetic): one axis keeps scale 1 and only the other is cropped.
AspectFillCoversCanvas ==
    (bl.pc = "done" /\ bl.kind = "aspect") =>
        /\ 0 <= bl.bgX /\ bl.bgX <= ONE
        /\ 0 <= bl.bgY /\ bl.bgY <= ONE
        /\ bl.x = ONE \div 2 => bl.bgX = ONE \div 2
        /\ bl.y = ONE \div 2 => bl.bgY = ONE \div 2
        /\ bl.scaleX >= ONE /\ bl.scaleY >= ONE
        /\ bl.scaleX = ONE \/ bl.scaleY = ONE
        /\ Abs(bl.bg.x * bl.scaleY * bl.canvas.y - bl.bg.y * bl.scaleX * bl.canvas.x)
               * 1000 <= bl.bg.x * bl.scaleY * bl.canvas.y

\* the left edge of a 4:3 canvas lands inside a 16:9 background
WideBackgroundIsCropped ==
    /\ bl.pc = "done" /\ bl.kind = "aspect"
    /\ bl.canvas = [x |-> 4, y |-> 3] /\ bl.bg = [x |-> 16, y |-> 9]
    /\ bl.x = 0 /\ bl.bgX > 0
    /\ bl.y = 0 /\ bl.bgY = 0

\* the draws a call issued with the canvas as target
CanvasDraws(call) == {k \in DOMAIN call.ops : call.ops[k] = "blend"}

\* C24: after every render call on a running renderer the canvas has the
\* width and height of the frame passed to that call, for any sequence of
\* frames of changing resolution, and a call that returns has issued exactly
\* one draw to the canvas, the last draw of the call.
CanvasHasFrameSize ==
    Rendered(last) =>
        /\ canvas.width = last.width
        /\ canvas.height = last.height
        /\ Len(canvas.px) = last.height
        /\ last.kind # "throw" =>
              /\ Cardinality(CanvasDraws(last)) = 1
              /\ \A k \in DOMAIN last.ops, d \in CanvasDraws(last) :
                    last.ops[k] = "stateUpdate" => k < d

\* a frame of 1x2 was rendered after the mask of a frame of 2x2 was stored
ResolutionChanged ==
    /\ last.kind = "effecting"
    /\ last.prevState.w = 2
    /\ canvas.width = 1 /\ canvas.height = 2

\* the decode surface of a video background before any frame was drawn
InitialDecodeSurface == [width |-> 1, height |-> 1, px |-> <<0>>]

\* C26: for a video background every effecting render call uploads the
\* decode canvas again, so the background texture composited by a call holds
\* the most recent frame the decode writer drew before the call (the 1x1
\* initial surface when the call created the background); a write of the
\* decode writer between render calls leaves currentStateIndex, the mask
\* buffers and activeBackgroundSourceIdentifier alone.
VideoBackgroundIsLatestDecodedFrame ==
    [][ /\ (last'.kind = "effecting" /\ backgroundRenderInfo'.type = "video") =>
              \E surface \in {IF last'.bgCreated = 0 THEN backgroundRenderInfo.canvas
                               ELSE InitialDecodeSurface} :
                 /\ backgroundRenderInfo'.canvas = surface
                 /\ lookup([tex |-> glTextures'], backgroundRenderInfo'.texture) =
                        image("bg", "linear", surface.width, surface.height, surface.px)
        /\ last'.kind = "decode" =>
              /\ UNCHANGED <<currentStateIndex, storedStateTextures,
                             activeBackgroundSourceIdentifier, glTextures>>
              /\ backgroundRenderInfo'.texture = backgroundRenderInfo.texture ]_vars

\* a render call composited the second frame the decode writer drew
DecodedFrameComposited ==
    /\ last.kind = "effecting" /\ last.readsBackground
    /\ backgroundRenderInfo.type = "video"
    /\ backgroundRenderInfo.canvas.px = <<10, 250>>
    /\ lookup([tex |-> glTextures], backgroundRenderInfo.texture).px = <<10, 250>>

\* C27: after updateBackgroundIfNeeded fell back to the default colour for a
\* source of unsupported type, an effecting call with that same source
\* deletes and creates no texture: the fallback is cached under the identity
\* of the request.
UnsupportedFallbackIsCached ==
    [][ (/\ last'.kind = "effecting"
         /\ last'.request = OtherX.url
         /\ hist.request = last'.request
         /\ backgroundRenderInfo.type = "color") =>
            /\ last'.bgCreated = 0
            /\ last'.bgDeleted = 0
            /\ activeBackgroundSourceIdentifier = last'.request ]_vars

(***************************************************************************)
(* Properties of background loading                                        *)
(***************************************************************************)
\* the load started by the latest assignment of backgroundUrl is in flight
LoadPending(v) == \E l \in v.loads : l.id = v.started

\* C16: a load that was in flight when the last processed track stopped does
\* not install a source when it completes: with no track processed,
\* options.backgroundSource stays null and no captured track is left running.
OrphanedLoadInstallsNothing ==
    (vb.pc = "module" /\ vb.event.kind = "loaded" /\ vb.event.orphaned
                      /\ vb.refcount = 0) =>
        /\ vb.backgroundSource = NoSource
        /\ vb.tracks = {}

\* C17: a superseded load never applies its result: once options.backgroundUrl
\* was assigned a url after another one and no load is in flight any more, an
\* installed source is the one loaded from the current options.backgroundUrl.
InstalledSourceIsCurrent ==
    (/\ vb.loads = {}
     /\ vb.started >= 2
     /\ vb.backgroundUrl # ""
     /\ vb.backgroundSource # NoSource) =>
        vb.backgroundSource.url = vb.backgroundUrl

\* C18: while the load of the latest backgroundUrl is in flight, every frame
\* is rendered to the end and composited with the background that was active
\* before the assignment or with the default colour.
PendingLoadKeepsPreviousOrDefault ==
    [][ (nextTexture' # nextTexture /\ Rendered(last') /\ LoadPending(vb)) =>
            /\ last'.kind = "effecting"
            /\ last'.request \in {DefaultColorId, identifierOf(vb.previous)} ]_vars

\* C29: the refcount of processVideoTrack equals the number of output tracks
\* returned and not stopped and is never negative, and the stop handler tears
\* the shared background source down only when no output track is live any
\* more, also when stop() is called more than once on one output track.
RefcountCountsLiveTracks ==
    /\ vb.refcount = Cardinality(Live(vb))
    /\ vb.refcount >= 0
    /\ (vb.event.kind = "stop" /\ vb.event.teardown) => Live(vb) = {}

(***************************************************************************)
(* Properties of useVideoEffect                                            *)
(***************************************************************************)
\* C25: when applyEffect('blur') completes, vbOptions.modelPath is the path
\* of the model configured for blur and vbOptions.enabled is true; when
\* applyEffect('background') completes, modelPath is the path of the model
\* configured for virtual background, enabled is true and bgBlur is 0; when
\* applyEffect('none') completes, enabled is false.  Stated for calls no other
\* applyEffect call overlapped.
ApplyEffectSelectsModel ==
    ~fx.completed.overlapped =>
        /\ fx.completed.effect = "blur" =>
              /\ fx.completed.modelPath = "/models/selfie_multiclass_256x256.tflite"
              /\ fx.completed.enabled
        /\ fx.completed.effect = "background" =>
              /\ fx.completed.modelPath = "/models/selfie_segmenter.tflite"
              /\ fx.completed.enabled
              /\ fx.completed.bgBlur = 0
        /\ fx.completed.effect = "none" => ~fx.completed.enabled

\* C28: a blob: URL is never revoked while it is the background URL in use:
\* the URL loadBackground fetches for the current options.backgroundUrl was
\* not revoked by the set trap.
FetchedUrlNotRevoked ==
    \A l \in vb.loads : l.id = vb.started => ~l.revoked

\* C30: at most one processed track is live: once no applyEffect call is in
\* flight, every output track of processVideoTrack other than the one in
\* processedTrackRef has been stopped, and when the last call of the hook was
\* stopEffect none is live.
AtMostOneProcessedTrack ==
    fx.pc = "hook" /\ fx.calls = {} =>
        /\ Live(vb) \subseteq {fx.processedTrackRef}
        /\ fx.lastCall = "stopEffect" => Live(vb) = {}

\* C31: whenever effectType is 'background' and no applyEffect call is in
\* flight, vbOptions.bgBlur is 0, for any interleaving of applyEffect calls
\* with config changes.  Stated for hooks whose last completed call was not
\* overlapped by another applyEffect call.
BackgroundEffectHasNoBlur ==
    (fx.pc = "hook" /\ fx.effectType = "background" /\ fx.calls = {}
        /\ ~fx.completed.overlapped) => vb.bgBlur = 0

\* C32: the worker's copy of the options follows the main thread's: once
\* every 'options' message posted has been delivered and applied and no
\* background load is in flight, every field the worker holds equals the
\* main thread's value, media aside, and the worker's backgroundSource is
\* null or absent when the main thread's is null.
WorkerOptionsFollowMain ==
    (wk.pc = "worker" /\ wk.delivered > 0 /\ wk.queue = <<>> /\ vb.loads = {}) =>
        /\ wk.options.backgroundUrl = vb.backgroundUrl
        /\ wk.options.modelPath = vb.modelPath
        /\ wk.options.enabled = vb.enabled
        /\ wk.options.bgBlur = vb.bgBlur
        /\ IF vb.backgroundSource = NoSource
           THEN "backgroundSource" \notin DOMAIN wk.options
                   \/ wk.options.backgroundSource = NoSource
           ELSE /\ "backgroundSource" \in DOMAIN wk.options
                /\ wk.options.backgroundSource.type = vb.backgroundSource.type
                /\ wk.options.backgroundSource.url = vb.backgroundSource.url

\* C33: FallbackProcessor stops producing once stopped: no VideoFrame is
\* enqueued after track.stop() or after the stream was cancelled, also not by
\* a pull that was waiting for the frame interval when the stop happened, and
\* a pull that finds the processor stopped closes the stream and releases the
\* video element.
StoppedProcessorEnqueuesNothing ==
    (fp.pc \in {"readable", "waiting"}) =>
        /\ \A k \in DOMAIN fp.frames : fp.frames[k].running
        /\ fp.event = "closed" => (fp.state = "closed" /\ fp.released)

\* C34: RNNoiseProcessor is an order-preserving FIFO while ready and enabled:
\* between samples 0 <= inputBufferFill < 480 and 0 <= outputBufferRead <=
\* outputBufferFill <= 480; from the 480th sample on every output sample is
\* the next unread processed sample, so each processed sample is emitted once
\* and in order, none is overwritten before it was read and no zero is
\* emitted for underrun; when RNNoise is not ready or disabled the output
\* equals the input.
RNNoiseIsFifo ==
    rn.pc \in {"worklet", "process"} =>
        /\ 0 <= rn.inputBufferFill /\ rn.inputBufferFill < RNNOISE_FRAME_SIZE
        /\ 0 <= rn.outputBufferRead /\ rn.outputBufferRead <= rn.outputBufferFill
        /\ rn.outputBufferFill <= RNNOISE_FRAME_SIZE
        /\ \A n \in DOMAIN rn.emitted :
              rn.emitted[n] = IF n < RNNOISE_FRAME_SIZE THEN 0
                              ELSE rn.processed[n - (RNNOISE_FRAME_SIZE - 1)] \div INT16_RANGE
        /\ Len(rn.emitted) >= RNNOISE_FRAME_SIZE =>
              Len(rn.processed) - (Len(rn.emitted) - (RNNOISE_FRAME_SIZE - 1))
                 = rn.outputBufferFill - rn.outputBufferRead
        /\ rn.passthrough => rn.output = rn.input

\* the second frame has been processed and read from, and a block was passed
\* through while the processor was disabled
SecondFrameEmitted ==
    /\ rn.pc = "worklet"
    /\ rn.frames >= 2
    /\ Len(rn.emitted) > 2 * RNNOISE_FRAME_SIZE
    /\ rn.passthrough /\ rn.ready /\ ~rn.enabled /\ Len(rn.output) = 128

\* C35: useRecording keeps recordings separate: isRecording is true from
\* startRecording until the onstop of that recorder fires, the recordedBlob
\* set at onstop consists exactly of the non-empty chunks the stopped
\* recorder delivered since its own startRecording, and stopRecording on an
\* inactive or absent recorder changes nothing.
RecordingsAreSeparate ==
    [][ (rec.pc = "hook") =>
          /\ (rec'.mediaRecorderRef # NULL
                 /\ (rec'.recorders[rec'.mediaRecorderRef].state = "recording"
                        \/ rec'.recorders[rec'.mediaRecorderRef].pending # "none"))
                => rec'.isRecording
          /\ rec'.event.kind = "stop" =>
                rec'.recordedBlob = rec'.recorders[rec'.event.recorder].delivered
          /\ (rec'.event.kind = "stopRecording"
                 /\ (rec.mediaRecorderRef = NULL
                        \/ rec.recorders[rec.mediaRecorderRef].state = "inactive"))
                => [rec' EXCEPT !.event = rec.event] = rec ]_vars
====
